---- MODULE Spec2Model ----
(***************************************************************************)
(* A model of the go-sigv4 signer: AWS Signature Version 4 header signing  *)
(* (SignHTTP) and presigning (PresignHTTP), the canonicalization builders, *)
(* the header rules and the per-day derived-key cache.                     *)
(*                                                                         *)
(* Go strings are TLA+ strings; byte slices produced by SHA-256 and        *)
(* HMAC-SHA256 are symbolic terms written as strings ("hmac(k,m)"), i.e.   *)
(* the hash functions are modelled as collision-free.                      *)
(***************************************************************************)
EXTENDS Integers, Sequences, FiniteSets, TLC

(***************************************************************************)
(* Strings: the operations of Go's strings package the program uses.       *)
(***************************************************************************)

\* The printable ASCII characters in byte order, code 32 (space) to 126.
\* Code 96 (backquote) cannot be written in a TLA+ string; a tab stands in
\* its place so that the positions of the other characters are right.
Ascii ==
  " !\"#$%&'()*+,-./0123456789:;<=>?@ABCDEFGHIJKLMNOPQRSTUVWXYZ[\\]^_\tabcdefghijklmnopqrstuvwxyz{|}~"

Char(s, i) == SubSeq(s, i, i)

AsciiChars == { Char(Ascii, i) : i \in 1..Len(Ascii) }

\* The byte value of a one-character string.
Ord == [ c \in AsciiChars |-> 31 + (CHOOSE i \in 1..Len(Ascii) : Char(Ascii, i) = c) ]

Chr(n) == Char(Ascii, n - 31)

IsUpper(c) == Ord[c] >= 65 /\ Ord[c] <= 90
IsLower(c) == Ord[c] >= 97 /\ Ord[c] <= 122
IsDigit(c) == Ord[c] >= 48 /\ Ord[c] <= 57
IsAlnum(c) == IsUpper(c) \/ IsLower(c) \/ IsDigit(c)

LowerChar(c) == IF IsUpper(c) THEN Chr(Ord[c] + 32) ELSE c
UpperChar(c) == IF IsLower(c) THEN Chr(Ord[c] - 32) ELSE c

\* The concatenation of F(lo), ..., F(hi), by halving.
RECURSIVE MapCat(_, _, _)
MapCat(F(_), lo, hi) ==
  IF lo > hi THEN ""
  ELSE IF lo = hi THEN F(lo)
  ELSE MapCat(F, lo, (lo + hi) \div 2) \o MapCat(F, ((lo + hi) \div 2) + 1, hi)

ToLower(s) == MapCat(LAMBDA i : LowerChar(Char(s, i)), 1, Len(s))

EqualFold(a, b) == ToLower(a) = ToLower(b)

HasPrefix(s, p) == Len(s) >= Len(p) /\ SubSeq(s, 1, Len(p)) = p

TrimPrefix(s, p) == IF HasPrefix(s, p) THEN SubSeq(s, Len(p) + 1, Len(s)) ELSE s

\* strings.Index: the 0-based index of the first occurrence of sub, or -1.
Index(s, sub) ==
  LET hits == { i \in 0..(Len(s) - Len(sub)) : SubSeq(s, i + 1, i + Len(sub)) = sub }
  IN  IF hits = {} THEN -1 ELSE CHOOSE i \in hits : \A j \in hits : i <= j

Contains(s, sub) == Index(s, sub) >= 0

\* The Go slices s[i:] and s[:i] with 0-based bounds.
From(s, i) == SubSeq(s, i + 1, Len(s))
Upto(s, i) == SubSeq(s, 1, i)

\* Byte-wise comparison, as Go compares strings.
StrLess(a, b) ==
  LET n     == IF Len(a) < Len(b) THEN Len(a) ELSE Len(b)
      diffs == { i \in 1..n : Char(a, i) # Char(b, i) }
      d     == CHOOSE i \in diffs : \A j \in diffs : i <= j
  IN  IF diffs = {} THEN Len(a) < Len(b)
      ELSE Ord[Char(a, d)] < Ord[Char(b, d)]

\* sort.Strings on a slice: the ascending arrangement of its elements.
RECURSIVE InsertSorted(_, _)
InsertSorted(x, xs) ==
  IF xs = <<>> THEN <<x>>
  ELSE IF StrLess(Head(xs), x) THEN <<Head(xs)>> \o InsertSorted(x, Tail(xs))
  ELSE <<x>> \o xs

RECURSIVE SortStrings(_)
SortStrings(xs) ==
  IF xs = <<>> THEN <<>> ELSE InsertSorted(Head(xs), SortStrings(Tail(xs)))

\* strings.Join
RECURSIVE Join(_, _)
Join(xs, sep) ==
  IF xs = <<>> THEN ""
  ELSE IF Len(xs) = 1 THEN xs[1]
  ELSE xs[1] \o sep \o Join(Tail(xs), sep)

\* strings.Split for a non-empty one-character separator.
RECURSIVE Split(_, _)
Split(s, sep) ==
  IF ~Contains(s, sep) THEN <<s>>
  ELSE <<Upto(s, Index(s, sep))>> \o Split(From(s, Index(s, sep) + 1), sep)

\* strings.Replace(s, old, new, -1) for a one-character old.
ReplaceAll(s, old, new) ==
  MapCat(LAMBDA i : IF Char(s, i) = old THEN new ELSE Char(s, i), 1, Len(s))

\* A sequence holding the elements of a finite set of strings, ascending.
RECURSIVE SetToSortedSeq(_)
SetToSortedSeq(S) ==
  IF S = {} THEN <<>>
  ELSE LET m == CHOOSE x \in S : \A y \in S : y = x \/ StrLess(x, y)
       IN  <<m>> \o SetToSortedSeq(S \ {m})

Range(f) == { f[i] : i \in DOMAIN f }

(***************************************************************************)
(* Time: a time.Time is an instant (seconds since the Unix epoch and a     *)
(* nanosecond part) shown in a zone (seconds east of UTC).                 *)
(***************************************************************************)

SecondsPerDay == 24 * 3600

Digits == "0123456789"

RECURSIVE Pad(_, _)
\* n >= 0 written in decimal with at least w digits.
Pad(n, w) ==
  IF w <= 1 /\ n < 10 THEN Char(Digits, n + 1)
  ELSE Pad(n \div 10, w - 1) \o Char(Digits, (n % 10) + 1)

\* The proleptic Gregorian date of a day number (days since 1970-01-01),
\* computed in steps: the 400-year era and the day of the era, the year of
\* the era, the day of the year counted from 1 March, the month counted
\* from March.
CivilOfMonth(era, yoe, doy, mp) ==
  [year  |-> yoe + era * 400 + (IF mp >= 10 THEN 1 ELSE 0),
   month |-> IF mp < 10 THEN mp + 3 ELSE mp - 9,
   day   |-> doy - (153 * mp + 2) \div 5 + 1]

CivilOfDayOfYear(era, yoe, doy) == CivilOfMonth(era, yoe, doy, (5 * doy + 2) \div 153)

CivilOfYear(era, doe, yoe) ==
  CivilOfDayOfYear(era, yoe, doe - (365 * yoe + yoe \div 4 - yoe \div 100))

CivilOfEra(era, doe) ==
  CivilOfYear(era, doe,
              (doe - doe \div 1460 + doe \div 36524 - doe \div 146096) \div 365)

CivilFromDays(z0) == CivilOfEra((z0 + 719468) \div 146097, (z0 + 719468) % 146097)

\* time.Time.Date: the calendar date in the time's own zone.
Date(t) == CivilFromDays((t.unix + t.offset) \div SecondsPerDay)

\* time.Time.UTC: the same instant shown in UTC.
UTC(t) == [t EXCEPT !.offset = 0]

\* time.Time.Format with the layout "20060102".
FormatDate(d) == Pad(d.year, 4) \o Pad(d.month, 2) \o Pad(d.day, 2)

FormatShort(t) == FormatDate(Date(t))

\* time.Time.Format with the layout "20060102T150405Z" ("Z" is literal).
FormatClock(s) == Pad(s \div 3600, 2) \o Pad((s \div 60) % 60, 2) \o Pad(s % 60, 2)

FormatLong(t) ==
  FormatShort(t) \o "T" \o FormatClock((t.unix + t.offset) % SecondsPerDay) \o "Z"

(***************************************************************************)
(* net/url: query parsing and encoding (url.Values is a function from a    *)
(* parameter name to the sequence of its values).                          *)
(***************************************************************************)

HexDigits == "0123456789ABCDEF"

IsHex(c) == IsDigit(c) \/ (Ord[UpperChar(c)] >= 65 /\ Ord[UpperChar(c)] <= 70)

UnHex(c) == CHOOSE n \in 0..15 : Char(HexDigits, n + 1) = UpperChar(c)

\* url.shouldEscape in query-component mode: everything but the unreserved
\* characters is escaped.
ShouldEscape(c) == ~(IsAlnum(c) \/ c \in {"-", "_", ".", "~"})

\* The %XX escape of a character.
PercentEscape(c) ==
  "%" \o Char(HexDigits, (Ord[c] \div 16) + 1) \o Char(HexDigits, (Ord[c] % 16) + 1)

\* url.QueryEscape
QueryEscape(s) ==
  MapCat(LAMBDA i : LET c == Char(s, i)
                    IN  IF c = " " THEN "+"
                        ELSE IF ShouldEscape(c) THEN PercentEscape(c)
                        ELSE c,
         1, Len(s))

\* url.QueryUnescape fails on a % that two hex digits do not follow.  (A
\* hex digit is not a %, so in a string it accepts every % starts an
\* escape.)
UnescapeOk(s) ==
  \A i \in 1..Len(s) :
     Char(s, i) = "%" => i + 2 <= Len(s) /\ IsHex(Char(s, i + 1)) /\ IsHex(Char(s, i + 2))

\* url.QueryUnescape of a string it accepts.
QueryUnescape(s) ==
  MapCat(LAMBDA i :
           LET c == Char(s, i)
           IN  IF c = "%" THEN Chr(UnHex(Char(s, i + 1)) * 16 + UnHex(Char(s, i + 2)))
               ELSE IF (i > 1 /\ Char(s, i - 1) = "%") \/ (i > 2 /\ Char(s, i - 2) = "%")
                 THEN ""
               ELSE IF c = "+" THEN " "
               ELSE c,
         1, Len(s))

EmptyValues == [k \in {} |-> <<>>]

\* m[key] = append(m[key], v...)
AppendValues(m, key, vs) ==
  [k \in DOMAIN m \cup {key} |->
     IF k = key THEN (IF key \in DOMAIN m THEN m[key] ELSE <<>>) \o vs ELSE m[k]]

\* m[key] = vs
SetValues(m, key, vs) == [k \in DOMAIN m \cup {key} |-> IF k = key THEN vs ELSE m[k]]

\* url.Values.Set
ValuesSet(m, key, v) == SetValues(m, key, <<v>>)

\* url.ParseQuery, whose error URL.Query discards: a piece holding a
\* semicolon or a bad escape is dropped, as is an empty piece.
\* One piece cut at its first "=" into a key and a value: m with the pair
\* added, or m when the piece is dropped.
ParsePair(m, piece, key, value) ==
  IF Contains(piece, ";") \/ piece = "" \/ ~UnescapeOk(key) \/ ~UnescapeOk(value)
    THEN m
    ELSE AppendValues(m, QueryUnescape(key), <<QueryUnescape(value)>>)

ParsePiece(m, piece, eq) ==
  IF eq < 0 THEN ParsePair(m, piece, piece, "")
  ELSE ParsePair(m, piece, Upto(piece, eq), From(piece, eq + 1))

RECURSIVE ParsePieces(_, _)
ParsePieces(m, pieces) ==
  IF pieces = <<>> THEN m
  ELSE ParsePieces(ParsePiece(m, Head(pieces), Index(Head(pieces), "=")), Tail(pieces))

\* url.URL.Query
ParseQuery(rawQuery) ==
  IF rawQuery = "" THEN EmptyValues ELSE ParsePieces(EmptyValues, Split(rawQuery, "&"))

\* The "k=v" pairs of one parameter, in the order of its values.
EncodePairs(ek, vs) == [i \in 1..Len(vs) |-> ek \o "=" \o QueryEscape(vs[i])]

RECURSIVE EncodeKeys(_, _)
EncodeKeys(m, keys) ==
  IF keys = <<>> THEN <<>>
  ELSE EncodePairs(QueryEscape(Head(keys)), m[Head(keys)]) \o EncodeKeys(m, Tail(keys))

\* url.Values.Encode: parameters sorted by name, values in slice order.
Encode(m) == Join(EncodeKeys(m, SetToSortedSeq(DOMAIN m)), "&")

\* for key := range query { sort.Strings(query[key]) }
SortQueryValues(m) == [k \in DOMAIN m |-> SortStrings(m[k])]

(***************************************************************************)
(* constants.go                                                            *)
(***************************************************************************)

EmptyStringSHA256 == "e3b0c44298fc1c149afbf4c8996fb92427ae41e4649b934ca495991b7852b855"
SigningAlgorithm == "AWS4-HMAC-SHA256"
AuthorizationHeader == "Authorization"
AmzAlgorithmKey == "X-Amz-Algorithm"
AmzDateKey == "X-Amz-Date"
AmzCredentialKey == "X-Amz-Credential"
AmzSignedHeadersKey == "X-Amz-SignedHeaders"
AmzSignatureKey == "X-Amz-Signature"

(***************************************************************************)
(* SigningTime (time.go)                                                   *)
(***************************************************************************)

\* NewSigningTime, were it to keep the zone of the time, and TimeFormat,
\* were it to format the day only.
NewSigningTimeLocal(t) == t
TimeFormatDay(st) == FormatShort(st)

\* NewSigningTime: the time converted to UTC (the two format strings are
\* memoized by the accessors, which does not show in their results).
NewSigningTime(t) == UTC(t)

TimeFormat(st) == FormatLong(st)

ShortTimeFormat(st) == FormatShort(st)

(***************************************************************************)
(* headers.go: rules are values; IsValid interprets them.                  *)
(***************************************************************************)

MapRule(names) == [kind |-> "MapRule", names |-> names]
Patterns(ps) == [kind |-> "Patterns", patterns |-> ps]
ExcludeList(r) == [kind |-> "ExcludeList", rule |-> r]
Rules(rs) == [kind |-> "Rules", rules |-> rs]
InclusiveRules(rs) == [kind |-> "InclusiveRules", rules |-> rs]

RECURSIVE IsValid(_, _)
IsValid(rule, value) ==
  CASE rule.kind = "MapRule" -> value \in rule.names
    [] rule.kind = "Patterns" ->
         \E i \in DOMAIN rule.patterns :
            HasPrefix(ToLower(value), ToLower(rule.patterns[i]))
    [] rule.kind = "ExcludeList" -> ~IsValid(rule.rule, value)
    [] rule.kind = "Rules" ->
         \E i \in DOMAIN rule.rules : IsValid(rule.rules[i], value)
    [] rule.kind = "InclusiveRules" ->
         \A i \in DOMAIN rule.rules : IsValid(rule.rules[i], value)

IgnoredHeaders ==
  Rules(<< ExcludeList(MapRule({
    "Authorization", "User-Agent", "X-Amzn-Trace-Id", "Expect",
    "Transfer-Encoding" })) >>)

RequiredSignedHeaders ==
  Rules(<< MapRule({
    "Cache-Control", "Content-Disposition", "Content-Encoding",
    "Content-Language", "Content-Md5", "Content-Type", "Expires", "If-Match",
    "If-Modified-Since", "If-None-Match", "If-Unmodified-Since", "Range",
    "X-Amz-Acl", "X-Amz-Copy-Source", "X-Amz-Copy-Source-If-Match",
    "X-Amz-Copy-Source-If-Modified-Since", "X-Amz-Copy-Source-If-None-Match",
    "X-Amz-Copy-Source-If-Unmodified-Since", "X-Amz-Copy-Source-Range",
    "X-Amz-Copy-Source-Server-Side-Encryption-Customer-Algorithm",
    "X-Amz-Copy-Source-Server-Side-Encryption-Customer-Key",
    "X-Amz-Copy-Source-Server-Side-Encryption-Customer-Key-Md5",
    "X-Amz-Grant-Full-control", "X-Amz-Grant-Read", "X-Amz-Grant-Read-Acp",
    "X-Amz-Grant-Write", "X-Amz-Grant-Write-Acp", "X-Amz-Metadata-Directive",
    "X-Amz-Mfa", "X-Amz-Server-Side-Encryption",
    "X-Amz-Server-Side-Encryption-Aws-Kms-Key-Id",
    "X-Amz-Server-Side-Encryption-Context",
    "X-Amz-Server-Side-Encryption-Customer-Algorithm",
    "X-Amz-Server-Side-Encryption-Customer-Key",
    "X-Amz-Server-Side-Encryption-Customer-Key-Md5", "X-Amz-Storage-Class",
    "X-Amz-Website-Redirect-Location", "X-Amz-Content-Sha256",
    "X-Amz-Tagging" }),
    Patterns(<<"X-Amz-Object-Lock-">>),
    Patterns(<<"X-Amz-Meta-">>) >>)

AllowedQueryHoisting ==
  InclusiveRules(<< ExcludeList(RequiredSignedHeaders), Patterns(<<"X-Amz-">>) >>)

(***************************************************************************)
(* request.go, util.go, host.go                                            *)
(***************************************************************************)

\* The first loop of StripExcessSpaces: the index (0-based) of the last
\* character that is not a space, or -1.
RECURSIVE LastNonSpace(_, _)
LastNonSpace(str, j) ==
  IF j >= 0 /\ Char(str, j + 1) = " " THEN LastNonSpace(str, j - 1) ELSE j

\* The second loop: the first index k with k >= j or str[k] not a space.
RECURSIVE FirstNonSpace(_, _, _)
FirstNonSpace(str, k, j) ==
  IF k < j /\ Char(str, k + 1) = " " THEN FirstNonSpace(str, k + 1, j) ELSE k

\* A third loop that copies every character.
CopySpaces(rest, spaces) == rest

\* The third loop, over buf[k:]: a space is kept only when no space precedes
\* it in the current run.
RECURSIVE CollapseSpaces(_, _)
CollapseSpaces(rest, spaces) ==
  IF rest = "" THEN ""
  ELSE IF Head(rest) = " "
    THEN (IF spaces = 0 THEN " " ELSE "") \o CollapseSpaces(Tail(rest), spaces + 1)
  ELSE Head(rest) \o CollapseSpaces(Tail(rest), 0)

StripExcessSpaces(str0) ==
  LET j0  == LastNonSpace(str0, Len(str0) - 1)
      k0  == FirstNonSpace(str0, 0, j0)
      str == SubSeq(str0, k0 + 1, j0 + 1)
      j   == Index(str, "  ")
  IN  IF j < 0 THEN str ELSE Upto(str, j) \o CollapseSpaces(From(str, j), 0)

\* strings.TrimSpace, for the one white-space character of the model.
RECURSIVE TrimLeft(_)
TrimLeft(s) == IF s # "" /\ Head(s) = " " THEN TrimLeft(Tail(s)) ELSE s

RECURSIVE TrimRight(_)
TrimRight(s) ==
  IF s # "" /\ Char(s, Len(s)) = " " THEN TrimRight(Upto(s, Len(s) - 1)) ELSE s

TrimSpace(s) == TrimRight(TrimLeft(s))

StripPort(hostport) ==
  LET colon == Index(hostport, ":")
      i     == Index(hostport, "]")
  IN  IF colon = -1 THEN hostport
      ELSE IF i # -1 THEN TrimPrefix(Upto(hostport, i), "[")
      ELSE Upto(hostport, colon)

PortOnly(hostport) ==
  LET colon == Index(hostport, ":")
      i     == Index(hostport, "]:")
  IN  IF colon = -1 THEN ""
      ELSE IF i # -1 THEN From(hostport, i + 2)
      ELSE IF Contains(hostport, "]") THEN ""
      ELSE From(hostport, colon + 1)

IsDefaultPort(scheme, port) ==
  IF port = "" THEN TRUE
  ELSE LET lowerScheme == ToLower(scheme)
       IN  (lowerScheme = "http" /\ port = "80")
           \/ (lowerScheme = "https" /\ port = "443")

GetHost(r) == IF r.Host # "" THEN r.Host ELSE r.URL.Host

\* A SanitizeHostForHeader that strips every port.
SanitizeHostAlways(r) == [r EXCEPT !.Host = StripPort(GetHost(r))]

\* SanitizeHostForHeader writes r.Host; the result is the request after it.
SanitizeHostForHeader(r) ==
  LET host == GetHost(r)
      port == PortOnly(host)
  IN  IF port # "" /\ IsDefaultPort(r.URL.Scheme, port)
        THEN [r EXCEPT !.Host = StripPort(host)]
        ELSE r

\* url.shouldEscape in path mode: of the reserved characters only ? is
\* escaped.
ShouldEscapePath(c) ==
  ~(IsAlnum(c) \/ c \in {"-", "_", ".", "~", "$", "&", "+", ",", "/", ":", ";", "=", "@"})

EscapePath(s) ==
  MapCat(LAMBDA i : IF ShouldEscapePath(Char(s, i)) THEN PercentEscape(Char(s, i))
                    ELSE Char(s, i),
         1, Len(s))

\* url.URL.EscapedPath for a URL that holds no RawPath.
EscapedPath(u) == EscapePath(u.Path)

\* GetURIPath for an opaque URL: the query is cut off, then a leading
\* scheme separator, and the path starts at the first path separator.
OpaquePath(opaque) ==
  IF Index(opaque, "/") >= 0 THEN From(opaque, Index(opaque, "/")) ELSE ""

OpaqueNoScheme(opaque) ==
  OpaquePath(IF Index(opaque, "//") = 0 THEN From(opaque, 2) ELSE opaque)

OpaqueNoQuery(opaque) ==
  OpaqueNoScheme(IF Index(opaque, "?") >= 0 THEN Upto(opaque, Index(opaque, "?"))
                 ELSE opaque)

\* A GetURIPath that returns an empty path as it is.
PathAsIs(uriPath) == uriPath

PathOrRoot(uriPath) == IF Len(uriPath) = 0 THEN "/" ELSE uriPath

GetURIPath(u) ==
  PathOrRoot(IF Len(u.Opaque) > 0 THEN OpaqueNoQuery(u.Opaque) ELSE EscapedPath(u))

\* url.URL.String for the fields a request URL of the model holds.
URLString(u) ==
  (IF u.Scheme # "" THEN u.Scheme \o ":" ELSE "")
  \o (IF u.Opaque # "" THEN u.Opaque
      ELSE (IF (u.Scheme # "" \/ u.Host # "") /\ (u.Host # "" \/ u.Path # "")
              THEN "//" \o u.Host ELSE "")
           \o (IF EscapedPath(u) # "" /\ Head(EscapedPath(u)) # "/" /\ u.Host # ""
                 THEN "/" ELSE "")
           \o EscapedPath(u))
  \o (IF u.RawQuery # "" THEN "?" \o u.RawQuery ELSE "")

(***************************************************************************)
(* crypto: SHA-256 and HMAC-SHA256 as collision-free symbolic terms.       *)
(***************************************************************************)

Sum256(data) == "sha256(" \o data \o ")"

HexEncodeToString(bytes) == "hex(" \o bytes \o ")"

(***************************************************************************)
(* derivekey.go                                                            *)
(***************************************************************************)

HMACSHA256(key, data) == "hmac(" \o key \o "," \o data \o ")"

\* kDate, kRegion, kService and kSigning, each the HMAC of the next input
\* under the one before.
DeriveKey(secret, service, region, t) ==
  HMACSHA256(HMACSHA256(HMACSHA256(HMACSHA256("AWS4" \o secret, ShortTimeFormat(t)),
                                   region),
                        service),
             "aws4_request")

(***************************************************************************)
(* keyderivator.go: the cache maps a cache key to a derivedKey entry.      *)
(***************************************************************************)

newDerivedKeyCache == [k \in {} |-> [accessKeyID |-> "", date |-> 0, key |-> ""]]

\* A cache key that leaves the region out.
lookupKeyOfService(service, region) == service

lookupKey(service, region) == region \o "/" \o service

\* isSameDay, were it to ask for less than 24 hours between the two times.
Within24Hours(t1, t2) ==
  t1.unix - t2.unix < SecondsPerDay /\ t2.unix - t1.unix < SecondsPerDay

\* y1 == y2 && m1 == m2 && d1 == d2
SameDate(d1, d2) == d1.year = d2.year /\ d1.month = d2.month /\ d1.day = d2.day

isSameDay(t1, t2) == SameDate(Date(t1), Date(t2))

\* get, were it not to compare the access key id.
getAnyAccessKey(values, key, accessKeyID, t) ==
  IF key \notin DOMAIN values THEN [key |-> "", ok |-> FALSE]
  ELSE IF ~isSameDay(t, values[key].date) THEN [key |-> "", ok |-> FALSE]
  ELSE [key |-> values[key].key, ok |-> TRUE]

\* derivedKeyCache.get: the key and whether the entry is there and valid.
derivedKeyCache_get(values, key, accessKeyID, t) ==
  IF key \notin DOMAIN values THEN [key |-> "", ok |-> FALSE]
  ELSE IF values[key].accessKeyID # accessKeyID THEN [key |-> "", ok |-> FALSE]
  ELSE IF ~isSameDay(t, values[key].date) THEN [key |-> "", ok |-> FALSE]
  ELSE [key |-> values[key].key, ok |-> TRUE]

\* A set that keeps the entry it stores and no other.
setEvicting(values, key, accessKeyID, t, k) ==
  [c \in {key} |-> [accessKeyID |-> accessKeyID, date |-> t, key |-> k]]

\* derivedKeyCache.set: the map after the store.
derivedKeyCache_set(values, key, accessKeyID, t, k) ==
  [c \in DOMAIN values \cup {key} |->
     IF c = key THEN [accessKeyID |-> accessKeyID, date |-> t, key |-> k]
     ELSE values[c]]

\* SigningKeyDeriver.DeriveKey: the key returned and the cache afterwards.
\* The two ways out of SigningKeyDeriver.DeriveKey: got is what the cache
\* answered, key the key derived when it had no valid entry.
DeriveKeyMiss(values, cacheKey, accessKeyID, signingTime, key) ==
  [key |-> key,
   values |-> derivedKeyCache_set(values, cacheKey, accessKeyID, signingTime, key),
   hit |-> FALSE]

DeriveKeyLookup(values, cacheKey, accessKeyID, secretAccessKey, service, region, signingTime, got) ==
  IF got.ok THEN [key |-> got.key, values |-> values, hit |-> TRUE]
  ELSE DeriveKeyMiss(values, cacheKey, accessKeyID, signingTime,
                     DeriveKey(secretAccessKey, service, region, signingTime))

SigningKeyDeriver_DeriveKey(values, accessKeyID, secretAccessKey, service, region, signingTime) ==
  DeriveKeyLookup(values, lookupKey(service, region), accessKeyID, secretAccessKey,
                  service, region, signingTime,
                  derivedKeyCache_get(values, lookupKey(service, region), accessKeyID,
                                      signingTime))

(***************************************************************************)
(* The lock of derivedKeyCacheThr: a sync.RWMutex is the set of goroutines *)
(* that hold it for reading, the goroutine that holds it for writing and   *)
(* the goroutine that has called Lock and waits for the readers to leave   *)
(* (0 for none).                                                           *)
(***************************************************************************)

\* The zero RWMutex of newDerivedKeyCacheThr.
newRWMutex == [readers |-> {}, writer |-> 0, pending |-> 0]

\* RLock, were it to return whoever holds the lock.
RLockAlways(mu) == TRUE

\* RLock returns when no goroutine holds the lock for writing or waits to.
RLockReady(mu) == mu.writer = 0 /\ mu.pending = 0

RLock(mu, g) == [mu EXCEPT !.readers = @ \cup {g}]

RUnlock(mu, g) == [mu EXCEPT !.readers = @ \ {g}]

\* Lock first excludes the other writers and announces itself to the
\* readers, then waits until the readers that hold the lock have left.
LockReady(mu) == mu.writer = 0 /\ mu.pending = 0

LockPending(mu, g) == [mu EXCEPT !.pending = g]

\* Lock, were it to return while readers hold the lock.
LockOverReaders(mu, g) == mu.pending = g

LockAcquirable(mu, g) == mu.pending = g /\ mu.readers = {}

Lock(mu, g) == [mu EXCEPT !.pending = 0, !.writer = g]

Unlock(mu, g) == [mu EXCEPT !.writer = 0]

(***************************************************************************)
(* builders.go                                                             *)
(***************************************************************************)

BuildCredentialScope(t, region, service) ==
  Join(<<ShortTimeFormat(t), region, service, "aws4_request">>, "/")

\* strconv.FormatInt(length, 10) for length >= 0.
FormatInt(n) == Pad(n, 1)

\* A loop turn that does not pass over the caller's Content-Length.
ScanHeaderWithLength(acc, rule, k, lowerKey, v) ==
  IF ~IsValid(rule, k) THEN acc
  ELSE IF lowerKey \in DOMAIN acc.signed
    THEN [acc EXCEPT !.signed = AppendValues(acc.signed, lowerKey, v)]
  ELSE [headers |-> Append(acc.headers, lowerKey),
        signed  |-> SetValues(acc.signed, lowerKey, v)]

\* One turn of the loop of BuildCanonicalHeaders, for the key k whose lower
\* case is lowerKey and whose values are v.  acc holds the names appended
\* to headers and the signed map.
ScanHeader(acc, rule, k, lowerKey, v) ==
  IF ~IsValid(rule, k) \/ EqualFold(k, "content-length") THEN acc
  ELSE IF lowerKey \in DOMAIN acc.signed
    THEN [acc EXCEPT !.signed = AppendValues(acc.signed, lowerKey, v)]
  ELSE [headers |-> Append(acc.headers, lowerKey),
        signed  |-> SetValues(acc.signed, lowerKey, v)]

\* The loop over the header map, visiting its keys in the given order (Go
\* iterates a map in an unspecified order).
RECURSIVE ScanHeaders(_, _, _, _)
ScanHeaders(acc, rule, header, order) ==
  IF order = <<>> THEN acc
  ELSE ScanHeaders(ScanHeader(acc, rule, Head(order), ToLower(Head(order)),
                              header[Head(order)]),
                   rule, header, Tail(order))

\* What BuildCanonicalHeaders holds before the loop: host, and the content
\* length when it is positive.
HostAndLength(host, length) ==
  IF length > 0
    THEN [headers |-> <<"host", "content-length">>,
          signed  |-> AppendValues(SetValues(EmptyValues, "host", <<host>>),
                                   "content-length", <<FormatInt(length)>>)]
    ELSE [headers |-> <<"host">>, signed |-> SetValues(EmptyValues, "host", <<host>>)]

\* One line of the canonical header block.
CanonicalHeaderLine(name, host, signed) ==
  IF name = "host" THEN "host:" \o StripExcessSpaces(host) \o "\n"
  ELSE name \o ":"
       \o Join([j \in 1..Len(signed[name]) |->
                  TrimSpace(StripExcessSpaces(signed[name][j]))], ",")
       \o "\n"

\* What BuildCanonicalHeaders returns, from the sorted names.
CanonicalHeaders(host, signed, headers) ==
  [signed |-> signed,
   signedHeaders |-> Join(headers, ";"),
   canonicalHeadersStr |->
     Join([i \in 1..Len(headers) |-> CanonicalHeaderLine(headers[i], host, signed)], "")]

SortedHeaders(host, acc) == CanonicalHeaders(host, acc.signed, SortStrings(acc.headers))

\* BuildCanonicalHeaders with the order in which the header map is visited.
BuildCanonicalHeaders(host, rule, header, length, order) ==
  SortedHeaders(host, ScanHeaders(HostAndLength(host, length), rule, header, order))

BuildCanonicalString(method, uri, query, signedHeaders, canonicalHeaders, payloadHash) ==
  Join(<<method, uri, query, canonicalHeaders, signedHeaders, payloadHash>>, "\n")

BuildStringToSign(algorithm, timestamp, credentialScope, canonicalRequest) ==
  LET hashStr == HexEncodeToString(Sum256(canonicalRequest))
  IN  Join(<<algorithm, timestamp, credentialScope, hashStr>>, "\n")

BuildSignature(key, stringToSign) == HexEncodeToString(HMACSHA256(key, stringToSign))

BuildAuthorizationHeader(credentialStr, signedHeadersStr, signature) ==
  SigningAlgorithm \o " " \o "Credential=" \o credentialStr \o ", "
    \o "SignedHeaders=" \o signedHeadersStr \o ", " \o "Signature=" \o signature

\* The names BuildQuery stores in lower case.
lowerCaseHeaders ==
  [k \in {"X-Amz-Expected-Bucket-Owner", "X-Amz-Request-Payer"} |-> ToLower(k)]

BuildQueryKey(k) == IF k \in DOMAIN lowerCaseHeaders THEN lowerCaseHeaders[k] ELSE k

\* One turn of the loop of BuildQuery, for the name k and the values h.
HoistHeader(acc, rule, k, h) ==
  IF IsValid(rule, k)
    THEN [acc EXCEPT !.query = SetValues(acc.query, k, h)]
    ELSE [acc EXCEPT !.unsignedHeaders = SetValues(acc.unsignedHeaders, k, h)]

\* The loop of BuildQuery over the header map, visiting its keys in the
\* given order: a later key that maps to the same name overwrites.
RECURSIVE HoistHeaders(_, _, _, _)
HoistHeaders(acc, rule, header, order) ==
  IF order = <<>> THEN acc
  ELSE HoistHeaders(HoistHeader(acc, rule, BuildQueryKey(Head(order)), header[Head(order)]),
                    rule, header, Tail(order))

\* BuildQuery: the headers the rule accepts go to query, the others to
\* unsignedHeaders, each under its (possibly lower-cased) name.
BuildQuery(rule, header, order) ==
  HoistHeaders([query |-> EmptyValues, unsignedHeaders |-> EmptyValues],
               rule, header, order)

\* textproto.CanonicalMIMEHeaderKey for a name made of letters, digits and
\* hyphens: the first letter and each letter after a hyphen in upper case,
\* the others in lower case.
CanonicalizeHeaderKey(key) ==
  MapCat(LAMBDA i : IF i = 1 \/ Char(key, i - 1) = "-"
                      THEN UpperChar(Char(key, i)) ELSE LowerChar(Char(key, i)),
         1, Len(key))

(***************************************************************************)
(* config.go                                                               *)
(***************************************************************************)

\* Validate, were it to leave an empty service as it is.
ValidateNoDefault(c) ==
  IF c.Region = "" THEN [err |-> "region is required", config |-> c]
  ELSE IF c.AccessKeyID = "" THEN [err |-> "access key ID is required", config |-> c]
  ELSE IF c.SecretAccessKey = ""
    THEN [err |-> "secret access key is required", config |-> c]
  ELSE [err |-> "", config |-> c]

\* Config.Validate: the error ("" for nil) and the config it leaves behind
\* (the receiver is a pointer: the default service is written through it).
Validate(c) ==
  IF c.Region = "" THEN [err |-> "region is required", config |-> c]
  ELSE IF c.AccessKeyID = "" THEN [err |-> "access key ID is required", config |-> c]
  ELSE IF c.SecretAccessKey = ""
    THEN [err |-> "secret access key is required", config |-> c]
  ELSE [err |-> "",
        config |-> IF c.Service = "" THEN [c EXCEPT !.Service = "s3"] ELSE c]

(***************************************************************************)
(* signer.go                                                               *)
(***************************************************************************)

\* The orders in which a range statement may visit the keys of a header
\* map.  The loops of BuildCanonicalHeaders and BuildQuery give a result
\* that depends only on the relative order of the keys that fall together
\* once lower cased, so the other keys are visited first, in one order.
RECURSIVE AllOrders(_)
AllOrders(S) ==
  IF S = {} THEN {<<>>}
  ELSE UNION { { <<k>> \o o : o \in AllOrders(S \ {k}) } : k \in S }

KeyOrders(header) ==
  LET clash == { a \in DOMAIN header :
                   \E b \in DOMAIN header : a # b /\ ToLower(a) = ToLower(b) }
  IN  { SetToSortedSeq(DOMAIN header \ clash) \o o : o \in AllOrders(clash) }

\* The Signer NewSigner returns and its error: nil (no Signer) on an
\* invalid config, else a Signer holding the validated config and an empty
\* cache.
NewSigner(config) ==
  LET v == Validate(config)
  IN  IF v.err # ""
        THEN [nil |-> TRUE, err |-> "invalid config: " \o v.err, config |-> config]
        ELSE [nil |-> FALSE, err |-> "", config |-> v.config]

\* The httpSigner SignHTTP and PresignHTTP build for one call; values is
\* the cache of the Signer's key derivator.
httpSigner(s, values, payloadHash, signingTime, isPreSign) ==
  [PayloadHash |-> payloadHash,
   ServiceName |-> s.config.Service,
   Region |-> s.config.Region,
   AccessKeyID |-> s.config.AccessKeyID,
   SecretAccessKey |-> s.config.SecretAccessKey,
   Time |-> NewSigningTime(signingTime),
   IsPreSign |-> isPreSign,
   DisableHeaderHoisting |-> s.config.DisableHeaderHoisting,
   values |-> values]

\* setRequiredSigningFields: the header map and the query after it.
setRequiredSigningFields(s, headers, query) ==
  IF s.IsPreSign
    THEN [headers |-> headers,
          query |-> ValuesSet(ValuesSet(query, AmzAlgorithmKey, SigningAlgorithm),
                              AmzDateKey, TimeFormat(s.Time))]
    ELSE [headers |-> SetValues(headers, AmzDateKey, <<TimeFormat(s.Time)>>),
          query |-> query]

\* The host both build functions sign.
SigningHost(req) == IF Len(req.Host) > 0 THEN req.Host ELSE req.URL.Host

\* The last lines of build and of buildPresign: build writes the
\* Authorization header and the re-encoded query, buildPresign appends the
\* signature to the query.  The result is the request they leave, the cache
\* they leave and the strings they computed on the way.
buildWrite(s, r1, ch, rawQuery, canonicalString, credentialStr, strToSign, dk, signature) ==
  [req |-> IF s.IsPreSign
             THEN [r1 EXCEPT !.URL.RawQuery =
                     rawQuery \o "&" \o AmzSignatureKey \o "=" \o signature]
             ELSE [r1 EXCEPT !.Header =
                     SetValues(r1.Header, AuthorizationHeader,
                               <<BuildAuthorizationHeader(credentialStr, ch.signedHeaders,
                                                          signature)>>),
                             !.URL.RawQuery = rawQuery],
   values |-> dk.values, key |-> dk.key, hit |-> dk.hit,
   signedHeaders |-> ch.signed, signedHeadersStr |-> ch.signedHeaders,
   canonicalQuery |-> rawQuery, canonicalString |-> canonicalString,
   credentialStr |-> credentialStr, strToSign |-> strToSign,
   signature |-> signature]

\* ... the signature, from the derived key and the string to sign.
buildSigned(s, r1, ch, rawQuery, canonicalString, credentialStr, strToSign, dk) ==
  buildWrite(s, r1, ch, rawQuery, canonicalString, credentialStr, strToSign, dk,
             BuildSignature(dk.key, strToSign))

\* ... the string to sign and the derived key.
buildSigningString(s, r1, ch, rawQuery, credentialScope, canonicalString) ==
  buildSigned(s, r1, ch, rawQuery, canonicalString,
                 s.AccessKeyID \o "/" \o credentialScope,
                 BuildStringToSign(SigningAlgorithm, TimeFormat(s.Time), credentialScope,
                                   canonicalString),
                 SigningKeyDeriver_DeriveKey(s.values, s.AccessKeyID, s.SecretAccessKey,
                                             s.ServiceName, s.Region, s.Time))

\* ... the canonical request, from the sanitized request r1, the canonical
\* headers ch and the encoded query.
buildRequestString(s, r1, ch, rawQuery) ==
  buildSigningString(s, r1, ch, rawQuery,
                    BuildCredentialScope(s.Time, s.Region, s.ServiceName),
                    BuildCanonicalString(r1.Method, GetURIPath(r1.URL), rawQuery,
                                         ch.signedHeaders, ch.canonicalHeadersStr,
                                         s.PayloadHash))

\* The first lines of build on r1, the request with X-Amz-Date stamped and
\* the host sanitized: the canonical headers and the query, parsed, its
\* values sorted, and encoded.
buildHeaders(s, r1, order) ==
  buildRequestString(s, r1,
                       BuildCanonicalHeaders(SigningHost(r1), IgnoredHeaders, r1.Header,
                                             r1.ContentLength, order),
                       ReplaceAll(Encode(SortQueryValues(ParseQuery(r1.URL.RawQuery))),
                                  "+", "%20"))

\* httpSigner.build on the request value r0, the header map visited in the
\* given order.
build(s, r0, order) ==
  buildHeaders(
    s,
    SanitizeHostForHeader(
      [r0 EXCEPT !.Header = setRequiredSigningFields(s, r0.Header, EmptyValues).headers]),
    order)

\* That loop, were it to keep the hoisted values only.
HoistedOnly(query, urlValues) == urlValues

\* query[k] = urlValues[k] for every hoisted name.
MergeHoisted(query, urlValues) ==
  [k \in DOMAIN query \cup DOMAIN urlValues |->
     IF k \in DOMAIN urlValues THEN urlValues[k] ELSE query[k]]

\* The query and the headers left when the headers BuildQuery returned are
\* hoisted.
Hoisted(query, bq) ==
  [query |-> MergeHoisted(query, bq.query), unsignedHeaders |-> bq.unsignedHeaders]

\* What the hoisting step of buildPresign gets: the parameters BuildQuery
\* made of headers and the headers it left, or no parameter and all the
\* headers when hoisting is disabled.
HoistingOf(s, headers, order) ==
  IF ~s.DisableHeaderHoisting THEN BuildQuery(AllowedQueryHoisting, headers, order)
  ELSE [query |-> EmptyValues, unsignedHeaders |-> headers]

\* The query buildPresign holds when it calls BuildCanonicalHeaders, and
\* the headers it then passes: credential set, headers hoisted.
PresignQuery(s, query, credentialStr, headers, order) ==
  IF ~s.DisableHeaderHoisting
    THEN Hoisted(ValuesSet(query, AmzCredentialKey, credentialStr),
                 BuildQuery(AllowedQueryHoisting, headers, order))
    ELSE [query |-> ValuesSet(query, AmzCredentialKey, credentialStr),
          unsignedHeaders |-> headers]

\* PresignRawQuery, were the query encoded before the signed header names
\* are set.
PresignRawQueryEarly(query, signedHeadersStr) == ReplaceAll(Encode(query), "+", "%20")

\* The raw query buildPresign signs: the signed header names are set, then
\* the query is encoded.
PresignRawQuery(query, signedHeadersStr) ==
  ReplaceAll(Encode(ValuesSet(query, AmzSignedHeadersKey, signedHeadersStr)), "+", "%20")

\* buildPresign from the canonical headers ch on.
buildPresignQuery(s, r1, pq, ch) ==
  buildRequestString(s, r1, ch, PresignRawQuery(pq.query, ch.signedHeaders))

\* buildPresign from the query and headers pq that hoisting left.
buildPresignHeaders(s, r1, pq, order2) ==
  buildPresignQuery(s, r1, pq,
                    BuildCanonicalHeaders(SigningHost(r1), IgnoredHeaders,
                                          pq.unsignedHeaders, r1.ContentLength, order2))

\* httpSigner.buildPresign on the request value r0: order1 is the order in
\* which BuildQuery visits the header map, order2 the one in which
\* BuildCanonicalHeaders visits the headers left.
buildPresign(s, r0, order1, order2) ==
  buildPresignHeaders(
    s,
    SanitizeHostForHeader(r0),
    PresignQuery(s,
                 SortQueryValues(
                   setRequiredSigningFields(s, r0.Header, ParseQuery(r0.URL.RawQuery)).query),
                 s.AccessKeyID \o "/" \o BuildCredentialScope(s.Time, s.Region, s.ServiceName),
                 r0.Header, order1),
    order2)

\* That loop, were it to return the signed headers under the keys they have.
ResultHeadersRaw(signedHeaders) == signedHeaders

\* The loop of PresignHTTP that canonicalizes the keys of the signed
\* headers (their keys are lower case, so no two fall together).
ResultHeaders(signedHeaders) ==
  [key \in { CanonicalizeHeaderKey(k) : k \in DOMAIN signedHeaders } |->
     signedHeaders[CHOOSE k \in DOMAIN signedHeaders : CanonicalizeHeaderKey(k) = key]]

\* Clone, were it to return the request it was given.
CloneAlias(heap, ref) == [heap |-> heap, ref |-> ref]

\* http.Request.Clone: a new request object holding a deep copy; the heap
\* with the copy in it and the reference to the copy.
Clone(heap, ref) ==
  [heap |-> [r \in DOMAIN heap \cup {"clone"} |-> IF r = "clone" THEN heap[ref] ELSE heap[r]],
   ref  |-> "clone"]

\* That test, were it never to find the hash missing.
NeverMissing(payloadHash) == FALSE

\* The test both entry points make first: no payload hash was given.
PayloadHashMissing(payloadHash) == payloadHash = ""

(***************************************************************************)
(* The inputs of the model.                                                *)
(***************************************************************************)

\* Signing times are MaxTick + 1 instants half a second apart, from
\* 2023-01-01T23:59:58.5Z on: the second and the third share a second, the
\* first three share a day, and the fourth is midnight UTC of the next day;
\* every other one is given in the zone UTC+1.
MaxTick == 3

BaseUnix == 19358 * SecondsPerDay + 86398

TimeAt(k) ==
  [unix   |-> BaseUnix + ((k + 1) \div 2),
   nsec   |-> ((k + 1) % 2) * 500000000,
   offset |-> (k % 2) * 3600]

Times == { TimeAt(k) : k \in 0..MaxTick }

\* time.Time.Equal: the same instant, whatever the zone.
SameInstant(t1, t2) == t1.unix = t2.unix /\ t1.nsec = t2.nsec

PayloadHashes == {"", EmptyStringSHA256}

\* The configs NewSigner is called with.
Configs ==
  [Region : {"", "us-east-1", "auto"}, AccessKeyID : {"", "AKID"},
   SecretAccessKey : {"", "SECRET"}, Service : {"", "s3", "iam"},
   ThreadSafety : BOOLEAN, DisableHeaderHoisting : BOOLEAN]

\* The configs of the Signers that sign.
SignerConfigs ==
  [Region : {"us-east-1"}, AccessKeyID : {"AKID"}, SecretAccessKey : {"SECRET"},
   Service : {""}, ThreadSafety : {FALSE}, DisableHeaderHoisting : BOOLEAN]

\* The arguments SigningKeyDeriver.DeriveKey is called with directly: two
\* of the (region, service) pairs have the same cache key.
AccessKeyIDs == {"AKID", "AKID2"}
Secrets == {"SECRET", "SECRET2"}
Regions == {"eu", "eu/s3", "us"}
Services == {"s3", "s3/s3"}

NewURL(scheme, host, path, rawQuery) ==
  [Scheme |-> scheme, Opaque |-> "", Host |-> host, Path |-> path, RawQuery |-> rawQuery]

NewRequestValue(method, u, header, host, length) ==
  [Method |-> method, URL |-> u, Header |-> header, HeaderNil |-> FALSE,
   Host |-> host, ContentLength |-> length]

Hdr1(k, v) == SetValues(EmptyValues, k, <<v>>)
Hdr2(k1, v1, k2, v2) == SetValues(Hdr1(k1, v1), k2, <<v2>>)

\* The requests a caller signs.
SampleRequests == <<
  \* the request of the package's tests
  NewRequestValue("GET", NewURL("https", "example.com", "/bucket/key", ""),
                  EmptyValues, "", 0),
  \* a query to be sorted and re-encoded, a default port, a body
  NewRequestValue("PUT", NewURL("https", "example.com:443", "/bucket/key",
                                "b=2&a=1+x&a=0&X-Amz-Expires=300"),
                  Hdr2("Content-Type", "text/plain", "X-Amz-Meta-Custom", " a  b "),
                  "", 5),
  \* a hoistable header and an ignored one
  NewRequestValue("GET", NewURL("http", "example.com", "", ""),
                  Hdr2("X-Amz-Security-Token", "tok", "User-Agent", "curl"),
                  "example.com:8080", 0),
  \* two header keys that differ only in case
  NewRequestValue("GET", NewURL("https", "example.com", "/", ""),
                  Hdr2("X-Foo", "a", "x-foo", "b"), "", 0),
  \* a request literal with no header map
  [NewRequestValue("GET", NewURL("https", "example.com", "/path", ""),
                   EmptyValues, "example.com", 0) EXCEPT !.HeaderNil = TRUE]
>>

(***************************************************************************)
(* The state machines.  Spec: a caller that holds a Signer and signs and   *)
(* presigns a request object with it.  SpecNewSigner: a caller that        *)
(* constructs Signers.  SpecDeriver: a caller of a SigningKeyDeriver.      *)
(***************************************************************************)

VARIABLES
  ctor,    \* the last NewSigner call: whether made, and its config argument
  signer,  \* what that call returned
  values,  \* the derived-key cache of the key derivator
  fresh,   \* the request as the caller first made it
  heap,    \* the request objects: "req" is the caller's request
  calls,   \* the calls made so far and what each did, oldest first
  mu,      \* the lock of the derived-key cache
  pc       \* where each goroutine that derives keys concurrently is

vars == <<ctor, signer, values, fresh, heap, calls, mu, pc>>

\* The goroutines that share one Signer.
MaxGoroutines == 3

Goroutines == 1..MaxGoroutines

\* A goroutine that is in no call of the key derivator.
Idle == [at |-> "idle", time |-> TimeAt(0), ok |-> FALSE, key |-> ""]

\* No goroutine is in a call and the lock is free.
Quiet ==
  /\ mu = newRWMutex
  /\ pc = [g \in Goroutines |-> Idle]

\* The lengths the history of calls is cut at.
MaxCalls == 2
MaxDerive == 2

ZeroConfig ==
  [Region |-> "", AccessKeyID |-> "", SecretAccessKey |-> "", Service |-> "",
   ThreadSafety |-> FALSE, DisableHeaderHoisting |-> FALSE]

\* A caller holding a Signer it constructed and a request it made.
Init ==
  /\ \E config \in SignerConfigs :
       /\ ctor = [called |-> TRUE, config |-> config]
       /\ signer = NewSigner(config)
  /\ values = newDerivedKeyCache
  /\ \E i \in DOMAIN SampleRequests :
       /\ fresh = SampleRequests[i]
       /\ heap = [r \in {"req"} |-> SampleRequests[i]]
  /\ calls = <<>>
  /\ Quiet

\* The caller makes its request anew.
NewRequest ==
  /\ heap' = [heap EXCEPT !["req"] = fresh]
  /\ UNCHANGED <<ctor, signer, values, fresh, calls, mu, pc>>

\* The record of a call that returned early or panicked.
Failed(op, payloadHash, t, outcome) ==
  [op |-> op, payloadHash |-> payloadHash, time |-> t, before |-> heap["req"],
   after |-> heap["req"], outcome |-> outcome, url |-> "", headers |-> EmptyValues,
   valuesBefore |-> values, valuesAfter |-> values, key |-> "", hit |-> FALSE,
   signedHeadersStr |-> "", canonicalQuery |-> "", canonicalString |-> "",
   credentialStr |-> "", strToSign |-> "", signature |-> "",
   hoisted |-> EmptyValues, unsigned |-> EmptyValues]

\* The record of a call that ran build or buildPresign; hq is what the
\* hoisting step got.
Done(op, payloadHash, t, b, heapAfter, url, headers, hq) ==
  [op |-> op, payloadHash |-> payloadHash, time |-> t, before |-> heap["req"],
   after |-> heapAfter["req"], outcome |-> "ok", url |-> url, headers |-> headers,
   valuesBefore |-> values, valuesAfter |-> b.values, key |-> b.key, hit |-> b.hit,
   signedHeadersStr |-> b.signedHeadersStr, canonicalQuery |-> b.canonicalQuery,
   canonicalString |-> b.canonicalString, credentialStr |-> b.credentialStr,
   strToSign |-> b.strToSign, signature |-> b.signature,
   hoisted |-> hq.query, unsigned |-> hq.unsignedHeaders]

\* err := signer.SignHTTP(req, payloadHash, t)
SignHTTP(payloadHash, t) ==
  /\ ~signer.nil
  /\ Len(calls) < MaxCalls
  /\ IF PayloadHashMissing(payloadHash)
       THEN /\ calls' = Append(calls, Failed("SignHTTP", payloadHash, t, "error"))
            /\ UNCHANGED <<heap, values>>
     ELSE IF heap["req"].HeaderNil
       \* setRequiredSigningFields assigns to an entry of a nil map
       THEN /\ calls' = Append(calls, Failed("SignHTTP", payloadHash, t, "panic"))
            /\ UNCHANGED <<heap, values>>
     ELSE LET s == httpSigner(signer, values, payloadHash, t, FALSE)
              stamped == setRequiredSigningFields(s, heap["req"].Header, EmptyValues).headers
          IN  \E order \in KeyOrders(stamped) :
              \E b \in {build(s, heap["req"], order)} :
                LET heapAfter == [heap EXCEPT !["req"] = b.req]
                IN  /\ heap' = heapAfter
                    /\ values' = b.values
                    /\ calls' = Append(calls, Done("SignHTTP", payloadHash, t, b,
                                                   heapAfter, "", EmptyValues,
                                                   [query |-> EmptyValues,
                                                    unsignedHeaders |-> stamped]))
  /\ UNCHANGED <<ctor, signer, fresh, mu, pc>>

\* url, headers, err := signer.PresignHTTP(req, payloadHash, t)
PresignHTTP(payloadHash, t) ==
  /\ ~signer.nil
  /\ Len(calls) < MaxCalls
  /\ IF PayloadHashMissing(payloadHash)
       THEN /\ calls' = Append(calls, Failed("PresignHTTP", payloadHash, t, "error"))
            /\ UNCHANGED <<heap, values>>
     ELSE LET s == httpSigner(signer, values, payloadHash, t, TRUE)
              c == Clone(heap, "req")
              hdr == c.heap[c.ref].Header
          IN  \E order1 \in KeyOrders(hdr) :
              \E order2 \in KeyOrders(PresignQuery(s, EmptyValues, "", hdr, order1).unsignedHeaders) :
              \E b \in {buildPresign(s, c.heap[c.ref], order1, order2)} :
                LET written == [c.heap EXCEPT ![c.ref] = b.req]
                    \* the copy is dropped when the call returns
                    heapAfter == [r \in {"req"} |-> written[r]]
                IN  /\ heap' = heapAfter
                    /\ values' = b.values
                    /\ calls' = Append(calls, Done("PresignHTTP", payloadHash, t, b,
                                                   heapAfter, URLString(written[c.ref].URL),
                                                   ResultHeaders(b.signedHeaders),
                                                   HoistingOf(s, hdr, order1)))
  /\ UNCHANGED <<ctor, signer, fresh, mu, pc>>

Next ==
  \/ NewRequest
  \/ \E payloadHash \in PayloadHashes, t \in Times : SignHTTP(payloadHash, t)
  \/ \E payloadHash \in PayloadHashes, t \in Times : PresignHTTP(payloadHash, t)

Spec == Init /\ [][Next]_vars

\* A caller that has constructed no Signer yet.
InitNewSigner ==
  /\ ctor = [called |-> FALSE, config |-> ZeroConfig]
  /\ signer = [nil |-> TRUE, err |-> "", config |-> ZeroConfig]
  /\ values = newDerivedKeyCache
  /\ fresh = SampleRequests[1]
  /\ heap = [r \in {"req"} |-> SampleRequests[1]]
  /\ calls = <<>>
  /\ Quiet

\* signer, err := NewSigner(config)
CallNewSigner(config) ==
  /\ ctor' = [called |-> TRUE, config |-> config]
  /\ signer' = NewSigner(config)
  /\ values' = newDerivedKeyCache
  /\ UNCHANGED <<fresh, heap, calls, mu, pc>>

NextNewSigner == \E config \in Configs : CallNewSigner(config)

SpecNewSigner == InitNewSigner /\ [][NextNewSigner]_vars

\* key := deriver.DeriveKey(accessKeyID, secret, service, region, NewSigningTime(t))
CallDeriveKey(accessKeyID, secret, service, region, t) ==
  /\ Len(calls) < MaxDerive
  /\ \E d \in {SigningKeyDeriver_DeriveKey(values, accessKeyID, secret, service, region,
                                          NewSigningTime(t))} :
       /\ values' = d.values
       /\ calls' = Append(calls,
            [accessKeyID |-> accessKeyID, secret |-> secret, service |-> service,
             region |-> region, time |-> t, key |-> d.key, hit |-> d.hit,
             valuesBefore |-> values, valuesAfter |-> d.values])
  /\ UNCHANGED <<ctor, signer, fresh, heap, mu, pc>>

NextDeriver ==
  \E accessKeyID \in AccessKeyIDs, secret \in Secrets, service \in Services,
     region \in Regions, t \in Times :
    CallDeriveKey(accessKeyID, secret, service, region, t)

\* A caller holding a new SigningKeyDeriver.
SpecDeriver == InitNewSigner /\ [][NextDeriver]_vars

\* The Signers that goroutines share: with the lock-guarded cache and
\* with the cache that has no lock.
SharedConfigs ==
  [Region : {"us-east-1"}, AccessKeyID : {"AKID"}, SecretAccessKey : {"SECRET"},
   Service : {""}, ThreadSafety : BOOLEAN, DisableHeaderHoisting : {FALSE}]

\* The signing times of the goroutines: two UTC days.
SharedTimes == {TimeAt(0), TimeAt(3)}

\* Goroutines that hold one Signer.
InitShared ==
  /\ \E config \in SharedConfigs :
       /\ ctor = [called |-> TRUE, config |-> config]
       /\ signer = NewSigner(config)
  /\ values = newDerivedKeyCache
  /\ fresh = SampleRequests[1]
  /\ heap = [r \in {"req"} |-> SampleRequests[1]]
  /\ calls = <<>>
  /\ Quiet

\* The cache key the shared Signer derives keys under.
SharedSlot == lookupKey(signer.config.Service, signer.config.Region)

\* Goroutine g signs at time t and comes to SigningKeyDeriver.DeriveKey,
\* which calls get.
EnterDeriveKey(g, t) ==
  /\ pc[g].at = "idle"
  /\ pc' = [pc EXCEPT ![g] = [Idle EXCEPT !.at = "get", !.time = NewSigningTime(t)]]
  /\ UNCHANGED <<ctor, signer, values, fresh, heap, calls, mu>>

\* get: c.mu.RLock() (the cache without a lock has no such step).
GetRLock(g) ==
  /\ pc[g].at = "get"
  /\ signer.config.ThreadSafety => RLockReady(mu)
  /\ mu' = IF signer.config.ThreadSafety THEN RLock(mu, g) ELSE mu
  /\ pc' = [pc EXCEPT ![g].at = "rlocked"]
  /\ UNCHANGED <<ctor, signer, values, fresh, heap, calls>>

\* Goroutine g reads the map while another goroutine is between the Lock
\* and the Unlock of set, or writes it so or while another is between the
\* RLock and the RUnlock of get: a data race on a Go map.
RacingRead(g) == \E h \in Goroutines \ {g} : pc[h].at \in {"locked", "written"}
RacingWrite(g) ==
  \E h \in Goroutines \ {g} : pc[h].at \in {"locked", "written", "rlocked", "read"}

\* What a racing read may give besides the entry: nothing, or an entry half
\* written.
TornReads == {[key |-> "", ok |-> FALSE], [key |-> "torn", ok |-> TRUE]}

\* get: the read of c.values and the tests on the entry.
GetRead(g) ==
  /\ pc[g].at = "rlocked"
  /\ \E got \in {derivedKeyCache_get(values, SharedSlot, signer.config.AccessKeyID,
                                     pc[g].time)}
                  \cup (IF RacingRead(g) THEN TornReads ELSE {}) :
       pc' = [pc EXCEPT ![g].at = "read", ![g].ok = got.ok, ![g].key = got.key]
  /\ UNCHANGED <<ctor, signer, values, fresh, heap, calls, mu>>

\* get returns: the deferred c.mu.RUnlock().  On a hit DeriveKey returns
\* the key, on a miss it derives the key and calls set.
GetRUnlock(g) ==
  /\ pc[g].at = "read"
  /\ mu' = IF signer.config.ThreadSafety THEN RUnlock(mu, g) ELSE mu
  /\ pc' = IF pc[g].ok THEN [pc EXCEPT ![g] = Idle]
           ELSE [pc EXCEPT ![g].at = "set",
                           ![g].key = DeriveKey(signer.config.SecretAccessKey,
                                                signer.config.Service,
                                                signer.config.Region, pc[g].time)]
  /\ UNCHANGED <<ctor, signer, values, fresh, heap, calls>>

\* set: c.mu.Lock() is called and shuts out the goroutines that come after.
SetLock(g) ==
  /\ pc[g].at = "set"
  /\ signer.config.ThreadSafety => LockReady(mu)
  /\ mu' = IF signer.config.ThreadSafety THEN LockPending(mu, g) ELSE mu
  /\ pc' = [pc EXCEPT ![g].at = "pending"]
  /\ UNCHANGED <<ctor, signer, values, fresh, heap, calls>>

\* set: c.mu.Lock() returns.
SetLocked(g) ==
  /\ pc[g].at = "pending"
  /\ signer.config.ThreadSafety => LockAcquirable(mu, g)
  /\ mu' = IF signer.config.ThreadSafety THEN Lock(mu, g) ELSE mu
  /\ pc' = [pc EXCEPT ![g].at = "locked"]
  /\ UNCHANGED <<ctor, signer, values, fresh, heap, calls>>

\* set: the write of c.values[key].
SetWrite(g) ==
  /\ pc[g].at = "locked"
  /\ \E k \in {pc[g].key} \cup (IF RacingWrite(g) THEN {"torn"} ELSE {}) :
       values' = derivedKeyCache_set(values, SharedSlot, signer.config.AccessKeyID,
                                     pc[g].time, k)
  /\ pc' = [pc EXCEPT ![g].at = "written"]
  /\ UNCHANGED <<ctor, signer, fresh, heap, calls, mu>>

\* set returns: the deferred c.mu.Unlock(); DeriveKey returns the key.
SetUnlock(g) ==
  /\ pc[g].at = "written"
  /\ mu' = IF signer.config.ThreadSafety THEN Unlock(mu, g) ELSE mu
  /\ pc' = [pc EXCEPT ![g] = Idle]
  /\ UNCHANGED <<ctor, signer, values, fresh, heap, calls>>

NextShared ==
  \E g \in Goroutines :
    \/ \E t \in SharedTimes : EnterDeriveKey(g, t)
    \/ GetRLock(g)
    \/ GetRead(g)
    \/ GetRUnlock(g)
    \/ SetLock(g)
    \/ SetLocked(g)
    \/ SetWrite(g)
    \/ SetUnlock(g)

\* Goroutines that derive keys through one Signer at the same time.
SpecShared == InitShared /\ [][NextShared]_vars

\* The three policies of headers.go, by name.
Policies ==
  [IgnoredHeaders |-> IgnoredHeaders, RequiredSignedHeaders |-> RequiredSignedHeaders,
   AllowedQueryHoisting |-> AllowedQueryHoisting]

\* Header names the policies are asked about: ignored ones, required
\* signed ones by name and by prefix, hoistable ones and others.
RuleNames ==
  {"Authorization", "User-Agent", "Expect", "Content-Type", "X-Amz-Acl",
   "X-Amz-Content-Sha256", "X-Amz-Meta-Custom", "X-Amz-Object-Lock-Mode",
   "X-Amz-Security-Token", "X-Amz-Date", "X-Foo"}

\* strings.ToUpper
ToUpper(s) == MapCat(LAMBDA i : UpperChar(Char(s, i)), 1, Len(s))

\* A name as written, in lower case and in upper case.
Recasings(name) == {name, ToLower(name), ToUpper(name)}

\* The number of questions a caller puts to the policies.
MaxChecks == 2

\* policy.IsValid(name) and policy.IsValid(recased)
CheckRule(policy, name, recased) ==
  /\ Len(calls) < MaxChecks
  /\ calls' = Append(calls,
       [policy |-> policy, name |-> name, recased |-> recased,
        valid |-> IsValid(Policies[policy], name),
        validRecased |-> IsValid(Policies[policy], recased)])
  /\ UNCHANGED <<ctor, signer, values, fresh, heap, mu, pc>>

NextRules ==
  \E policy \in DOMAIN Policies, name \in RuleNames :
    \E recased \in Recasings(name) : CheckRule(policy, name, recased)

\* A caller of the header policies.
SpecRules == InitNewSigner /\ [][NextRules]_vars

\* The requests of a caller that sets headers: the kinds of header in
\* canonical capitalization; a required signed name in lower case; a name
\* BuildQuery stores in lower case, twice; the ignored headers; an ignored
\* name in lower case; a required signed name in two casings.
HeaderRequests == <<
  NewRequestValue("PUT", NewURL("https", "example.com", "/bucket/key", ""),
                  ("X-Amz-Acl" :> <<"private">>) @@ ("X-Amz-Meta-Custom" :> <<"v">>)
                    @@ ("Content-Type" :> <<"text/plain">>)
                    @@ ("X-Amz-Security-Token" :> <<"tok">>)
                    @@ ("X-Amz-Expected-Bucket-Owner" :> <<"123">>),
                  "", 5),
  NewRequestValue("GET", NewURL("https", "example.com", "/bucket/key", ""),
                  Hdr1("x-amz-acl", "private"), "", 0),
  NewRequestValue("GET", NewURL("https", "example.com", "/bucket/key", ""),
                  Hdr2("X-Amz-Request-Payer", "requester", "x-amz-request-payer", "other"),
                  "", 0),
  NewRequestValue("GET", NewURL("https", "example.com", "/bucket/key", ""),
                  ("User-Agent" :> <<"curl">>) @@ ("Authorization" :> <<"Basic old">>)
                    @@ ("Expect" :> <<"100-continue">>)
                    @@ ("Transfer-Encoding" :> <<"chunked">>)
                    @@ ("X-Amzn-Trace-Id" :> <<"Root=1">>)
                    @@ ("X-Amz-Meta-A" :> <<"1">>),
                  "", 0),
  NewRequestValue("GET", NewURL("https", "example.com", "/bucket/key", ""),
                  Hdr1("user-agent", "curl"), "", 0),
  NewRequestValue("GET", NewURL("https", "example.com", "/bucket/key", ""),
                  Hdr2("X-Amz-Acl", "public-read", "x-amz-acl", "private"), "", 0)
>>

InitHeaders ==
  /\ \E config \in SignerConfigs :
       /\ ctor = [called |-> TRUE, config |-> config]
       /\ signer = NewSigner(config)
  /\ values = newDerivedKeyCache
  /\ \E i \in DOMAIN HeaderRequests :
       /\ fresh = HeaderRequests[i]
       /\ heap = [r \in {"req"} |-> HeaderRequests[i]]
  /\ calls = <<>>
  /\ Quiet

\* The header the caller changes between two signings.
EditedHeaders == {"User-Agent"}

\* The caller changes a header of its request, req.Header.Set(name, value),
\* or removes it, req.Header.Del(name).
EditHeader(name, value, remove) ==
  /\ name \in DOMAIN heap["req"].Header
  /\ heap' = [heap EXCEPT !["req"].Header =
               IF remove THEN [k \in DOMAIN @ \ {name} |-> @[k]]
               ELSE SetValues(@, name, <<value>>)]
  /\ UNCHANGED <<ctor, signer, values, fresh, calls, mu, pc>>

NextHeaders ==
  \/ Next
  \/ \E name \in EditedHeaders, remove \in BOOLEAN : EditHeader(name, "changed", remove)

\* A caller that signs and presigns a request with headers.
SpecHeaders == InitHeaders /\ [][NextHeaders]_vars

\* The requests of a caller whose URL carries a query of its own: one with
\* an expiry, a parameter of several values and a space to encode; one with
\* a parameter that a hoistable header of the request also names, a date
\* and a signature left from an earlier presigning, and a piece that
\* url.ParseQuery rejects; one with a plus sign, a space, and a hoistable
\* header of two values given in descending order.
QueryRequests == <<
  NewRequestValue("GET", NewURL("https", "example.com", "/bucket/key",
                                "X-Amz-Expires=300&b=2&a=1+x&a=0&c"),
                  Hdr1("Content-Type", "text/plain"), "", 0),
  NewRequestValue("GET", NewURL("https", "example.com", "/bucket/key",
                                "X-Amz-Security-Token=old&X-Amz-Date=20200101T000000Z&d=%zz&e=1&X-Amz-Signature=0a1b"),
                  Hdr1("X-Amz-Security-Token", "tok"), "", 0),
  NewRequestValue("GET", NewURL("https", "example.com", "/bucket/key",
                                "b=2&b=1&p=a%2Bb+c"),
                  "X-Amz-Custom" :> <<"b", "a">>, "", 0)
>>

InitQuery ==
  /\ \E config \in SignerConfigs :
       /\ ctor = [called |-> TRUE, config |-> config]
       /\ signer = NewSigner(config)
  /\ values = newDerivedKeyCache
  /\ \E i \in DOMAIN QueryRequests :
       /\ fresh = QueryRequests[i]
       /\ heap = [r \in {"req"} |-> QueryRequests[i]]
  /\ calls = <<>>
  /\ Quiet

\* A caller that signs and presigns a request with a query.
SpecQuery == InitQuery /\ [][Next]_vars

(***************************************************************************)
(* The properties.  Those of SignHTTP and PresignHTTP are stated of Spec,  *)
(* the one of NewSigner of SpecNewSigner, those of the key deriver of      *)
(* SpecDeriver.                                                            *)
(***************************************************************************)

\* The calls of one entry point, and those of them that returned no error.
CallsOf(op) == { i \in DOMAIN calls : calls[i].op = op }
Signed(op) == { i \in CallsOf(op) : calls[i].outcome = "ok" }

\* The raw query of a URL string.
RawQueryOf(url) == IF Contains(url, "?") THEN From(url, Index(url, "?") + 1) ELSE ""

\* The one value a header map holds under a name ("" when it holds none or
\* several).
HeaderValue(header, name) ==
  IF name \in DOMAIN header /\ Len(header[name]) = 1 THEN header[name][1] ELSE ""

\* Two instants on the same UTC calendar day; in the same UTC second.
SameUTCDay(t1, t2) == t1.unix \div SecondsPerDay = t2.unix \div SecondsPerDay
SameUTCSecond(t1, t2) == t1.unix = t2.unix

\* C1: PresignHTTP leaves the caller's request object as it found it: its
\* URL (query included), its header map, its Host and its content length
\* are after the call what they were before it, whether the call returned
\* an error or not.
C1_PresignKeepsRequest ==
  \A i \in CallsOf("PresignHTTP") :
    /\ calls[i].after.URL = calls[i].before.URL
    /\ URLString(calls[i].after.URL) = URLString(calls[i].before.URL)
    /\ calls[i].after.Header = calls[i].before.Header
    /\ calls[i].after.HeaderNil = calls[i].before.HeaderNil
    /\ calls[i].after.Host = calls[i].before.Host
    /\ calls[i].after.ContentLength = calls[i].before.ContentLength

\* A successful PresignHTTP with hoisting on, of a request whose host held a
\* default port and whose query was re-encoded: the copy was written to.
C1_Witness ==
  \E i \in Signed("PresignHTTP") :
    /\ ~signer.config.DisableHeaderHoisting
    /\ calls[i].before.URL.Host = "example.com:443"
    /\ calls[i].before.Host = ""
    /\ Contains(calls[i].url, "X-Amz-Signature=")
    /\ Contains(calls[i].url, "X-Amz-Expires=300")

\* C2: SignHTTP and PresignHTTP with an empty payload hash return an error
\* and change nothing: the request (headers, query, Host) and the
\* derived-key cache are what they were before the call.
C2_EmptyPayloadHashChangesNothing ==
  \A i \in DOMAIN calls :
    calls[i].payloadHash = "" =>
      /\ calls[i].outcome = "error"
      /\ calls[i].after = calls[i].before
      /\ calls[i].after.Header = calls[i].before.Header
      /\ calls[i].after.URL.RawQuery = calls[i].before.URL.RawQuery
      /\ calls[i].after.Host = calls[i].before.Host
      /\ calls[i].valuesAfter = calls[i].valuesBefore
      /\ AmzDateKey \in DOMAIN calls[i].after.Header =>
           AmzDateKey \in DOMAIN calls[i].before.Header

\* Each entry point was called with no payload hash, on a request that
\* carries no X-Amz-Date and whose host and query a signing would rewrite.
C2_Witness ==
  /\ \E i \in CallsOf("SignHTTP") : calls[i].payloadHash = ""
  /\ \E i \in CallsOf("PresignHTTP") : calls[i].payloadHash = ""
  /\ heap["req"].URL.Host = "example.com:443"
  /\ AmzDateKey \notin DOMAIN heap["req"].Header

\* C3: NewSigner returns an error and no Signer when the region, the access
\* key id or the secret access key of the config is empty; otherwise it
\* returns a Signer and no error, and the Signer's service is "s3" when the
\* config's service was empty and the config's service otherwise.
C3_NewSignerValidates ==
  ctor.called =>
    IF ctor.config.Region = "" \/ ctor.config.AccessKeyID = ""
         \/ ctor.config.SecretAccessKey = ""
      THEN signer.nil /\ signer.err # ""
      ELSE /\ ~signer.nil
           /\ signer.err = ""
           /\ signer.config.Service =
                (IF ctor.config.Service = "" THEN "s3" ELSE ctor.config.Service)

\* NewSigner returned a Signer for a config that named no service.
C3_Witness ==
  /\ ctor.called
  /\ ctor.config.Service = ""
  /\ ctor.config.Region # "" /\ ctor.config.AccessKeyID # ""
  /\ ctor.config.SecretAccessKey # ""
  /\ ~signer.nil

\* The cache key of a DeriveKey call and the key DeriveKey derives for its
\* arguments when it finds nothing in the cache.
SlotOf(c) == lookupKey(c.service, c.region)
Underived(c) == DeriveKey(c.secret, c.service, c.region, UTC(c.time))

\* C4: a DeriveKey call that follows one with the same region, service and
\* access key id is a cache hit exactly when the two signing times are on
\* the same UTC calendar day; a hit returns the stored key and leaves the
\* cache as it is, a miss derives the key anew and overwrites the entry.
C4_CacheValidByUTCDay ==
  \A i \in DOMAIN calls :
    (/\ i > 1
     /\ calls[i - 1].region = calls[i].region
     /\ calls[i - 1].service = calls[i].service
     /\ calls[i - 1].accessKeyID = calls[i].accessKeyID) =>
      /\ calls[i].hit <=> SameUTCDay(calls[i - 1].time, calls[i].time)
      /\ calls[i].hit =>
           /\ calls[i].key = calls[i].valuesBefore[SlotOf(calls[i])].key
           /\ calls[i].key = calls[i - 1].key
           /\ calls[i].valuesAfter = calls[i].valuesBefore
      /\ ~calls[i].hit =>
           /\ calls[i].key = Underived(calls[i])
           /\ calls[i].valuesAfter[SlotOf(calls[i])] =
                [accessKeyID |-> calls[i].accessKeyID, date |-> UTC(calls[i].time),
                 key |-> calls[i].key]
           /\ calls[i].valuesAfter # calls[i].valuesBefore

\* Two calls with the same region, service and access key id, the second
\* at most two seconds after the first and on the next UTC day: a miss.
C4_Witness ==
  /\ Len(calls) = 2
  /\ calls[1].region = calls[2].region /\ calls[1].service = calls[2].service
  /\ calls[1].accessKeyID = calls[2].accessKeyID
  /\ calls[1].secret = calls[2].secret
  /\ calls[2].time.unix - calls[1].time.unix \in 1..2
  /\ ~SameUTCDay(calls[1].time, calls[2].time)
  /\ ~calls[2].hit
  /\ calls[2].key # calls[1].key

\* Call j differs from call i in the one named respect only.
OnlySecretDiffers(i, j) ==
  /\ calls[i].secret # calls[j].secret
  /\ calls[i].service = calls[j].service /\ calls[i].region = calls[j].region
  /\ SameUTCDay(calls[i].time, calls[j].time)
  /\ calls[i].accessKeyID = calls[j].accessKeyID
OnlyServiceDiffers(i, j) ==
  /\ calls[i].secret = calls[j].secret
  /\ calls[i].service # calls[j].service /\ calls[i].region = calls[j].region
  /\ SameUTCDay(calls[i].time, calls[j].time)
  /\ calls[i].accessKeyID = calls[j].accessKeyID
OnlyRegionDiffers(i, j) ==
  /\ calls[i].secret = calls[j].secret
  /\ calls[i].service = calls[j].service /\ calls[i].region # calls[j].region
  /\ SameUTCDay(calls[i].time, calls[j].time)
  /\ calls[i].accessKeyID = calls[j].accessKeyID
OnlyDayDiffers(i, j) ==
  /\ calls[i].secret = calls[j].secret
  /\ calls[i].service = calls[j].service /\ calls[i].region = calls[j].region
  /\ ~SameUTCDay(calls[i].time, calls[j].time)
  /\ calls[i].accessKeyID = calls[j].accessKeyID
OnlyAccessKeyDiffers(i, j) ==
  /\ calls[i].secret = calls[j].secret
  /\ calls[i].service = calls[j].service /\ calls[i].region = calls[j].region
  /\ SameUTCDay(calls[i].time, calls[j].time)
  /\ calls[i].accessKeyID # calls[j].accessKeyID

\* What C5 says of the calls i and j.
KeysAsArguments(i, j) ==
  /\ OnlySecretDiffers(i, j) => calls[i].key # calls[j].key
  /\ OnlyServiceDiffers(i, j) => calls[i].key # calls[j].key
  /\ OnlyRegionDiffers(i, j) => calls[i].key # calls[j].key
  /\ OnlyDayDiffers(i, j) => calls[i].key # calls[j].key
  /\ OnlyAccessKeyDiffers(i, j) => calls[i].key = calls[j].key

Unstale(j) ==
  \A i \in 1..(j - 1) :
    (/\ calls[i].accessKeyID = calls[j].accessKeyID
     /\ SlotOf(calls[i]) = SlotOf(calls[j])
     /\ SameUTCDay(calls[i].time, calls[j].time)) =>
      /\ calls[i].secret = calls[j].secret
      /\ calls[i].service = calls[j].service
      /\ calls[i].region = calls[j].region

AuthorizationOf(c) == HeaderValue(c.after.Header, AuthorizationHeader)
AmzDateOf(c) == HeaderValue(c.after.Header, AmzDateKey)

\* Call j signs a request equal to the one call i signed.
EqualRequests(i, j) == calls[i].before = calls[j].before

\* Call j signs the request object call i left signed.
Resigns(i, j) == j = i + 1 /\ calls[j].before = calls[i].after

\* C6 as the claim states it: two SignHTTP calls with the same payload hash
\* and the same signing time, on two equal fresh requests or the second on
\* the request the first left signed, leave the same Authorization and
\* X-Amz-Date values.
C6_AsStated ==
  \A i, j \in Signed("SignHTTP") :
    (/\ i < j
     /\ calls[i].payloadHash = calls[j].payloadHash
     /\ calls[i].time = calls[j].time
     /\ (EqualRequests(i, j) /\ calls[i].before = fresh) \/ Resigns(i, j)) =>
      /\ AuthorizationOf(calls[i]) = AuthorizationOf(calls[j])
      /\ AmzDateOf(calls[i]) = AmzDateOf(calls[j])

\* C7 as the claim states it: SignHTTP on two equal requests at two
\* different timestamps leaves different X-Amz-Date values and different
\* Authorization values.
C7_AsStated ==
  \A i, j \in Signed("SignHTTP") :
    (i < j /\ EqualRequests(i, j) /\ ~SameInstant(calls[i].time, calls[j].time)) =>
      /\ AmzDateOf(calls[i]) # AmzDateOf(calls[j])
      /\ AuthorizationOf(calls[i]) # AuthorizationOf(calls[j])

\* C7, amended: SignHTTP on two equal requests at two timestamps that lie
\* in different UTC seconds leaves different X-Amz-Date values and
\* different Authorization values.
C7_DifferentSeconds ==
  \A i, j \in Signed("SignHTTP") :
    (i < j /\ EqualRequests(i, j) /\ ~SameUTCSecond(calls[i].time, calls[j].time)) =>
      /\ AmzDateOf(calls[i]) # AmzDateOf(calls[j])
      /\ AuthorizationOf(calls[i]) # AuthorizationOf(calls[j])

\* Two equal requests signed one second apart on the same UTC day, the
\* second time given in another zone.
C7_Witness ==
  \E i, j \in Signed("SignHTTP") :
    /\ i < j /\ EqualRequests(i, j)
    /\ calls[j].time.unix = calls[i].time.unix + 1
    /\ SameUTCDay(calls[i].time, calls[j].time)
    /\ calls[i].time.offset # calls[j].time.offset
    /\ AmzDateOf(calls[i]) # ""

\* A sequence of strings in strictly ascending order.
Ascending(xs) == \A k \in 1..(Len(xs) - 1) : StrLess(xs[k], xs[k + 1])

\* C8: after a successful SignHTTP the request carries one Authorization
\* value, "AWS4-HMAC-SHA256 Credential=<access key id>/<date>/<region>/
\* <service>/aws4_request, SignedHeaders=<names>, Signature=<signature>",
\* where the date is the UTC day of the signing time and the first eight
\* characters of the X-Amz-Date the call stamped, and the names are sorted,
\* joined by ";" and hold host and x-amz-date.  (The signature is the
\* symbolic term of the HMAC; its length is not modelled.)
C8_AuthorizationFormat ==
  \A i \in Signed("SignHTTP") :
    /\ \A k \in DOMAIN calls[i].after.Header :
         ToLower(k) = "authorization" =>
           k = AuthorizationHeader /\ Len(calls[i].after.Header[k]) = 1
    /\ AuthorizationOf(calls[i]) =
         "AWS4-HMAC-SHA256 Credential=" \o signer.config.AccessKeyID \o "/"
           \o Upto(AmzDateOf(calls[i]), 8) \o "/" \o signer.config.Region \o "/"
           \o signer.config.Service \o "/aws4_request, SignedHeaders="
           \o calls[i].signedHeadersStr \o ", Signature=" \o calls[i].signature
    /\ Upto(AmzDateOf(calls[i]), 8) = FormatShort(UTC(calls[i].time))
    /\ AmzDateOf(calls[i]) = FormatLong(UTC(calls[i].time))
    /\ Ascending(Split(calls[i].signedHeadersStr, ";"))
    /\ {"host", "x-amz-date"} \subseteq Range(Split(calls[i].signedHeadersStr, ";"))
    /\ calls[i].signature = "hex(hmac(" \o calls[i].key \o "," \o calls[i].strToSign \o "))"

\* A successful SignHTTP at a time given in the zone UTC+1, where the day
\* is already the next one, of a request with headers of its own to sign.
C8_Witness ==
  \E i \in Signed("SignHTTP") :
    /\ calls[i].time.offset = 3600
    /\ FormatShort(calls[i].time) # FormatShort(UTC(calls[i].time))
    /\ Len(Split(calls[i].signedHeadersStr, ";")) > 2
    /\ AuthorizationOf(calls[i]) # ""

\* The query of the URL a call returned, the term that stands for the
\* signature taken off its end (the term holds the characters that separate
\* parameters, which the 64 hex digits it stands for do not).
QueryBeforeSignature(q, signature) ==
  IF Len(q) >= Len(signature) /\ From(q, Len(q) - Len(signature)) = signature
    THEN Upto(q, Len(q) - Len(signature))
    ELSE q

\* The one value of a parameter in the query of the URL a call returned.
QueryValue(c, name) ==
  HeaderValue(ParseQuery(QueryBeforeSignature(RawQueryOf(c.url), c.signature)), name)

\* C9 as the claim states it: the query of the URL PresignHTTP returns has
\* X-Amz-Algorithm AWS4-HMAC-SHA256, X-Amz-Date the signing time in UTC and
\* X-Amz-Credential the credential string, the values the call signed with.
C9_AsStated ==
  \A i \in Signed("PresignHTTP") :
    /\ QueryValue(calls[i], AmzAlgorithmKey) = SigningAlgorithm
    /\ QueryValue(calls[i], AmzDateKey) = FormatLong(UTC(calls[i].time))
    /\ QueryValue(calls[i], AmzCredentialKey) = calls[i].credentialStr
    /\ calls[i].credentialStr =
         signer.config.AccessKeyID \o "/" \o FormatShort(UTC(calls[i].time)) \o "/"
           \o signer.config.Region \o "/" \o signer.config.Service \o "/aws4_request"

\* C10: the raw query of the URL PresignHTTP returns is the canonical query
\* string the call signed, which holds X-Amz-SignedHeaders and not the
\* signature of the call, followed by "&X-Amz-Signature=" and the signature.
C10_SignatureAppendedLast ==
  \A i \in Signed("PresignHTTP") :
    /\ RawQueryOf(calls[i].url) =
         calls[i].canonicalQuery \o "&X-Amz-Signature=" \o calls[i].signature
    /\ Split(calls[i].canonicalString, "\n")[3] = calls[i].canonicalQuery
    /\ calls[i].strToSign =
         Join(<<SigningAlgorithm, FormatLong(UTC(calls[i].time)),
                Join(<<FormatShort(UTC(calls[i].time)), signer.config.Region,
                       signer.config.Service, "aws4_request">>, "/"),
                "hex(sha256(" \o calls[i].canonicalString \o "))">>, "\n")
    /\ calls[i].signature = "hex(hmac(" \o calls[i].key \o "," \o calls[i].strToSign \o "))"
    /\ Contains(calls[i].canonicalQuery,
                "X-Amz-SignedHeaders=" \o QueryEscape(calls[i].signedHeadersStr))
    /\ ~Contains(calls[i].canonicalQuery, calls[i].signature)

\* A successful PresignHTTP, hoisting on, of a request with a query of its
\* own and a header that is signed.
C10_Witness ==
  \E i \in Signed("PresignHTTP") :
    /\ ~signer.config.DisableHeaderHoisting
    /\ calls[i].before.URL.RawQuery # ""
    /\ Contains(calls[i].signedHeadersStr, ";")
    /\ Contains(calls[i].url, "&X-Amz-Signature=")

\* The parameters of the URL a call returned, the signature apart, and
\* those of the request the call was given.
ParamsOf(c) == ParseQuery(QueryBeforeSignature(RawQueryOf(c.url), c.signature))
ParamsBefore(c) == ParseQuery(c.before.URL.RawQuery)

\* The five parameters presigning adds are in the URL a call returned, the
\* signature last.
HasSigningParams(c) ==
  /\ {AmzAlgorithmKey, AmzDateKey, AmzCredentialKey, AmzSignedHeadersKey}
       \subseteq DOMAIN ParamsOf(c)
  /\ RawQueryOf(c.url) # QueryBeforeSignature(RawQueryOf(c.url), c.signature)
  /\ HasPrefix(From(QueryBeforeSignature(RawQueryOf(c.url), c.signature),
                    Len(QueryBeforeSignature(RawQueryOf(c.url), c.signature))
                      - Len("&X-Amz-Signature=")),
               "&X-Amz-Signature=")

HoistedNames(c) ==
  IF signer.config.DisableHeaderHoisting THEN {}
  ELSE { BuildQueryKey(h) : h \in { x \in DOMAIN c.before.Header :
                                      IsValid(AllowedQueryHoisting, BuildQueryKey(x)) } }

\* The names of the parameters presigning sets itself.
SigningParams ==
  {AmzAlgorithmKey, AmzDateKey, AmzCredentialKey, AmzSignedHeadersKey, AmzSignatureKey}

InGet(g) == pc[g].at \in {"rlocked", "read"}
InSet(g) == pc[g].at \in {"locked", "written"}

\* C12: with the lock-guarded cache (ThreadSafety true), no goroutine is
\* inside set while another goroutine is inside get or set, so no write of
\* the map overlaps another access; the lock agrees: a writer holds it
\* alone, and the goroutines inside get are its readers.
C12_WriterExcludesAll ==
  signer.config.ThreadSafety =>
    /\ \A g, h \in Goroutines : (g # h /\ InSet(g)) => ~InGet(h) /\ ~InSet(h)
    /\ \A g \in Goroutines : InSet(g) <=> mu.writer = g
    /\ mu.readers = { g \in Goroutines : InGet(g) }
    /\ mu.writer # 0 => mu.readers = {}

\* With the lock-guarded cache, two goroutines are inside get at the same
\* time while a third waits in Lock to write.
C12_Witness ==
  /\ signer.config.ThreadSafety
  /\ \E g, h, w \in Goroutines :
       /\ g # h
       /\ InGet(g) /\ InGet(h)
       /\ pc[w].at = "pending"

\* With the lock-guarded cache, a goroutine has written the map and is
\* still inside set while the other goroutines wait to read or to write.
C12_WitnessWrite ==
  /\ signer.config.ThreadSafety
  /\ \E w, g, h \in Goroutines :
       /\ pc[w].at = "written"
       /\ pc[g].at = "get"
       /\ pc[h].at = "set"

\* C13 as the claim states it: a SignHTTP or PresignHTTP call with a
\* payload hash that is not empty returns, with an error or without one; it
\* does not panic, whatever the request (one with no header map included).
C13_AsStated ==
  \A i \in DOMAIN calls :
    calls[i].payloadHash # "" => calls[i].outcome \in {"ok", "error"}

\* C14 as the claim states it: each of the three policies gives a header
\* name and the same name in another casing the same answer.
C14_AsStated ==
  \A i \in DOMAIN calls : calls[i].valid = calls[i].validRecased

\* The header names of the request a call was given that are required
\* signed headers: one of the fixed names or a name with one of the two
\* prefixes, in whatever casing (header names are case-insensitive).
RequiredOf(c) ==
  { h \in DOMAIN c.before.Header :
      IsValid(RequiredSignedHeaders, CanonicalizeHeaderKey(h)) }

\* C15 as the claim states it: a required signed header of the request is
\* not a parameter of the URL PresignHTTP returns, and is among the signed
\* header names and in the header set returned.
C15_AsStated ==
  \A i \in Signed("PresignHTTP") :
    \A h \in RequiredOf(calls[i]) :
      /\ \A k \in DOMAIN ParamsOf(calls[i]) : ToLower(k) # ToLower(h)
      /\ ToLower(h) \in Range(Split(calls[i].signedHeadersStr, ";"))
      /\ CanonicalizeHeaderKey(h) \in DOMAIN calls[i].headers

\* What C15 says, of the required signed headers whose names are written
\* as http.Header writes them, in canonical capitalization.
C15_CanonicalNamesStaySigned ==
  \A i \in Signed("PresignHTTP") :
    \A h \in RequiredOf(calls[i]) :
      (h = CanonicalizeHeaderKey(h)) =>
        /\ h \notin DOMAIN ParamsOf(calls[i])
        /\ ToLower(h) \in Range(Split(calls[i].signedHeadersStr, ";"))
        /\ h \in DOMAIN calls[i].headers

\* The header names of the request a call was given that PresignHTTP
\* hoists, and those it leaves to canonical-header building.
HoistedOf(c) ==
  IF signer.config.DisableHeaderHoisting THEN {}
  ELSE { h \in DOMAIN c.before.Header : IsValid(AllowedQueryHoisting, BuildQueryKey(h)) }

KeptOf(c) == DOMAIN c.before.Header \ HoistedOf(c)

\* The header set a PresignHTTP call returned is the set of its signed
\* headers: its keys, in lower case, sorted and joined by ";", are the
\* X-Amz-SignedHeaders value of the URL and the signed header names of the
\* call; Host is among them; every key is in canonical MIME capitalization;
\* every other key but Content-Length is the name of headers of the request
\* that were not hoisted, and holds their values.
ReturnedAreSigned(c) ==
  /\ Join(SetToSortedSeq({ ToLower(k) : k \in DOMAIN c.headers }), ";")
       = QueryValue(c, AmzSignedHeadersKey)
  /\ QueryValue(c, AmzSignedHeadersKey) = c.signedHeadersStr
  /\ Cardinality({ ToLower(k) : k \in DOMAIN c.headers }) = Cardinality(DOMAIN c.headers)
  /\ "Host" \in DOMAIN c.headers
  /\ \A k \in DOMAIN c.headers : k = CanonicalizeHeaderKey(k)
  /\ \A k \in DOMAIN c.headers \ {"Host", "Content-Length"} :
       /\ \E h \in KeptOf(c) : ToLower(h) = ToLower(k)
       /\ Range(c.headers[k]) =
            UNION { Range(c.before.Header[h]) :
                      h \in { x \in KeptOf(c) : ToLower(x) = ToLower(k) } }

StoredName(h) ==
  IF h \in {"X-Amz-Expected-Bucket-Owner", "X-Amz-Request-Payer"} THEN ToLower(h) ELSE h

\* A header of the request of call c is among the parameters the hoisting
\* made; among the headers it passed on to canonical-header building.
InHoisted(c, h) ==
  StoredName(h) \in DOMAIN c.hoisted /\ c.hoisted[StoredName(h)] = c.before.Header[h]
InUnsigned(c, h) ==
  StoredName(h) \in DOMAIN c.unsigned /\ c.unsigned[StoredName(h)] = c.before.Header[h]

\* C17 as the claim states it: with hoisting enabled PresignHTTP puts every
\* header of the request, under the name BuildQuery stores it by, either
\* among the query parameters or among the headers passed to
\* canonical-header building, not in both and not in neither, and among the
\* parameters exactly when its name has the prefix X-Amz- and the
\* required-signed rule does not accept it; nothing else is in either; with
\* hoisting disabled no header is made a parameter and all are passed on.
C17_AsStated ==
  \A i \in Signed("PresignHTTP") :
    IF signer.config.DisableHeaderHoisting
      THEN /\ calls[i].hoisted = EmptyValues
           /\ calls[i].unsigned = calls[i].before.Header
      ELSE /\ \A h \in DOMAIN calls[i].before.Header :
                /\ InHoisted(calls[i], h) \/ InUnsigned(calls[i], h)
                /\ ~(InHoisted(calls[i], h) /\ InUnsigned(calls[i], h))
                /\ InHoisted(calls[i], h) <=>
                     (/\ HasPrefix(ToLower(h), "x-amz-")
                      /\ ~IsValid(RequiredSignedHeaders, StoredName(h)))
           /\ DOMAIN calls[i].hoisted \cup DOMAIN calls[i].unsigned
                = { StoredName(h) : h \in DOMAIN calls[i].before.Header }

\* The names of the ignored headers, in lower case.
IgnoredNames ==
  {"authorization", "user-agent", "x-amzn-trace-id", "expect", "transfer-encoding"}

\* The canonical header block of a call: the lines of its canonical request
\* between the canonical query and the signed header names.
BlockOf(c) ==
  LET lines == Split(c.canonicalString, "\n")
  IN  { Upto(lines[n], Index(lines[n], ":")) : n \in 4..(Len(lines) - 3) }

\* The headers of a request that are not ignored headers nor, for
\* SignHTTP, the date header the call itself writes.
Considered(op, header) ==
  LET keep == { h \in DOMAIN header :
                  /\ ToLower(h) \notin IgnoredNames
                  /\ ~(op = "SignHTTP" /\ h = AmzDateKey) }
  IN  [h \in keep |-> header[h]]

\* Two calls of one operation at one time whose requests differ in ignored
\* headers at most.
SameButIgnored(c, d) ==
  /\ c.op = d.op /\ c.time = d.time /\ c.payloadHash = d.payloadHash
  /\ [c.before EXCEPT !.Header = EmptyValues] = [d.before EXCEPT !.Header = EmptyValues]
  /\ Considered(c.op, c.before.Header) = Considered(d.op, d.before.Header)

\* C18 as the claim states it: an ignored header of the request, in any
\* casing of its name, is not among the signed header names of SignHTTP or
\* PresignHTTP nor on a line of the canonical header block, and two calls
\* whose requests differ in ignored headers only have the same signature.
C18_AsStated ==
  /\ \A i \in Signed("SignHTTP") \cup Signed("PresignHTTP") :
       \A h \in DOMAIN calls[i].before.Header :
         ToLower(h) \in IgnoredNames =>
           /\ ToLower(h) \notin Range(Split(calls[i].signedHeadersStr, ";"))
           /\ ToLower(h) \notin BlockOf(calls[i])
  /\ \A i, j \in Signed("SignHTTP") \cup Signed("PresignHTTP") :
       SameButIgnored(calls[i], calls[j]) => calls[i].signature = calls[j].signature

\* What C18 says, of the ignored headers whose names are written as
\* http.Header writes them, in canonical capitalization, and of requests
\* no two of whose header names differ in case only.
C18_CanonicalNamesIgnored ==
  /\ \A i \in Signed("SignHTTP") \cup Signed("PresignHTTP") :
       \A h \in DOMAIN calls[i].before.Header :
         (ToLower(h) \in IgnoredNames /\ h = CanonicalizeHeaderKey(h)) =>
           /\ ToLower(h) \notin Range(Split(calls[i].signedHeadersStr, ";"))
           /\ ToLower(h) \notin BlockOf(calls[i])
  /\ \A i, j \in Signed("SignHTTP") \cup Signed("PresignHTTP") :
       (/\ SameButIgnored(calls[i], calls[j])
        /\ \A h \in DOMAIN calls[i].before.Header \cup DOMAIN calls[j].before.Header :
             ToLower(h) \in IgnoredNames => h = CanonicalizeHeaderKey(h)
        /\ \A h, k \in DOMAIN calls[i].before.Header : ToLower(h) = ToLower(k) => h = k)
         => calls[i].signature = calls[j].signature

\* Two signings of a request between which the caller changed or removed
\* its User-Agent header.
C18_EditedBetween ==
  \E i, j \in Signed("SignHTTP") \cup Signed("PresignHTTP") :
    /\ i < j /\ SameButIgnored(calls[i], calls[j])
    /\ "User-Agent" \in DOMAIN calls[i].before.Header
    /\ calls[i].before.Header # calls[j].before.Header
    /\ "X-Amz-Meta-A" \in DOMAIN calls[i].before.Header

\* The headers a caller of BuildCanonicalHeaders draws its header sets
\* from: names in two casings, a Content-Length in two casings, a Host, an
\* ignored header, a header of two values with spaces to strip.
CanonicalPool ==
  ("Content-Type" :> <<"text/plain">>) @@ ("content-type" :> <<"b">>)
    @@ ("Content-Length" :> <<"99">>) @@ ("CONTENT-LENGTH" :> <<"7">>)
    @@ ("Host" :> <<"other.com">>) @@ ("User-Agent" :> <<"curl">>)
    @@ ("X-Amz-Date" :> <<"20230101T000000Z">>) @@ ("Accept" :> <<" a  b ", "c">>)

CanonicalHosts == {"example.com", " my  host "}

\* Content lengths: unknown (-1), none, some.
CanonicalLengths == {-1, 0, 5}

\* The number of calls of BuildCanonicalHeaders.
MaxBuilds == 1

\* signed, signedHeaders, canonicalHeadersStr :=
\*   BuildCanonicalHeaders(host, IgnoredHeaders, header, length)
CallBuildCanonicalHeaders(host, header, length, order) ==
  /\ Len(calls) < MaxBuilds
  /\ calls' = Append(calls,
       [host |-> host, header |-> header, length |-> length, order |-> order,
        result |-> BuildCanonicalHeaders(host, IgnoredHeaders, header, length, order)])
  /\ UNCHANGED <<ctor, signer, values, fresh, heap, mu, pc>>

NextCanonical ==
  \E host \in CanonicalHosts, keys \in SUBSET DOMAIN CanonicalPool, length \in CanonicalLengths :
    \E order \in KeyOrders([k \in keys |-> CanonicalPool[k]]) :
      CallBuildCanonicalHeaders(host, [k \in keys |-> CanonicalPool[k]], length, order)

\* A caller of BuildCanonicalHeaders.
SpecCanonical == InitNewSigner /\ [][NextCanonical]_vars

\* The names a call of BuildCanonicalHeaders is to list: host, content-length
\* for a positive length, and the lower case of every key of the header set
\* that is not ignored and is not a Content-Length.
NamesDue(c) ==
  {"host"} \cup (IF c.length > 0 THEN {"content-length"} ELSE {})
    \cup { ToLower(k) : k \in { h \in DOMAIN c.header :
                                   /\ ToLower(h) \notin IgnoredNames
                                   /\ ToLower(h) # "content-length" } }

\* C19: the signed header names BuildCanonicalHeaders returns, cut at ";",
\* are in lower case and strictly ascending in byte order (so sorted and
\* without duplicates); they are host, content-length exactly when the
\* length is positive, and one name for the keys of the header set that
\* differ in case only; the canonical header block is one line "name:values"
\* for each name, in the same order, each ended by a newline, the line of
\* content-length holding the length given.
C19_SignedNamesSortedUnique ==
  \A i \in DOMAIN calls :
    LET names == Split(calls[i].result.signedHeaders, ";")
        lines == Split(calls[i].result.canonicalHeadersStr, "\n")
    IN  /\ \A n \in DOMAIN names : names[n] = ToLower(names[n])
        /\ \A n \in DOMAIN names : n > 1 => StrLess(names[n - 1], names[n])
        /\ Range(names) = NamesDue(calls[i])
        /\ "host" \in Range(names)
        /\ ("content-length" \in Range(names)) <=> (calls[i].length > 0)
        /\ Len(lines) = Len(names) + 1 /\ lines[Len(lines)] = ""
        /\ \A n \in DOMAIN names : HasPrefix(lines[n], names[n] \o ":")
        /\ \A n \in DOMAIN names :
             names[n] = "content-length" =>
               lines[n] = "content-length:" \o FormatInt(calls[i].length)

\* A call with a positive length for a header set that carries a
\* Content-Length, an ignored header and a name in two casings.
C19_Witness ==
  \E i \in DOMAIN calls :
    /\ calls[i].length = 5
    /\ DOMAIN calls[i].header = {"Content-Type", "content-type", "Content-Length", "User-Agent", "Accept"}
    /\ calls[i].result.signedHeaders = "accept;content-length;content-type;host"
    /\ HasPrefix(calls[i].result.canonicalHeadersStr, "accept:a b,c\ncontent-length:5\ncontent-type:")

\* The characters of the strings a caller of StripExcessSpaces passes, and
\* the greatest length of these strings.
StripAlphabet == {" ", "a", "b"}
MaxStripLen == 6

RECURSIVE StringsUpTo(_)
StringsUpTo(n) ==
  IF n = 0 THEN {""}
  ELSE StringsUpTo(n - 1) \cup { c \o s : c \in StripAlphabet, s \in StringsUpTo(n - 1) }

\* The strings of the package's test, and one with a tab among its spaces.
StripSamples ==
  {"   test    value   ", "test", "test value", "test    value", "   test",
   "test   ", "     ", "a \t  b "}

\* The number of calls of StripExcessSpaces.
MaxStrips == 1

\* out := StripExcessSpaces(str); again := StripExcessSpaces(out)
CallStripExcessSpaces(str) ==
  /\ Len(calls) < MaxStrips
  /\ calls' = Append(calls,
       [str |-> str, out |-> StripExcessSpaces(str),
        again |-> StripExcessSpaces(StripExcessSpaces(str))])
  /\ UNCHANGED <<ctor, signer, values, fresh, heap, mu, pc>>

NextStrip == \E str \in StringsUpTo(MaxStripLen) \cup StripSamples : CallStripExcessSpaces(str)

\* A caller of StripExcessSpaces.
SpecStrip == InitNewSigner /\ [][NextStrip]_vars

\* The pieces of a string between its spaces that are not empty, in order.
WordsOf(str) == SelectSeq(Split(str, " "), LAMBDA w : w # "")

\* C20: StripExcessSpaces returns the pieces of its input that lie between
\* spaces, in order, with one space between two of them (so no space leads
\* or trails, every run of spaces is one space, and the other characters
\* are kept in order); the result holds no two adjacent spaces, and
\* StripExcessSpaces of the result is the result.
C20_StripsAndCollapses ==
  \A i \in DOMAIN calls :
    /\ calls[i].out = Join(WordsOf(calls[i].str), " ")
    /\ ~Contains(calls[i].out, "  ")
    /\ ~HasPrefix(calls[i].out, " ") /\ (calls[i].out # "" => Char(calls[i].out, Len(calls[i].out)) # " ")
    /\ calls[i].again = calls[i].out
    /\ calls[i].str = "   test    value   " => calls[i].out = "test value"
    /\ calls[i].str = "test" => calls[i].out = "test"
    /\ calls[i].str = "     " => calls[i].out = ""

\* A call on the string of the package's test that has spaces to trim at
\* both ends and a run to collapse.
C20_Witness ==
  \E i \in DOMAIN calls :
    /\ calls[i].str = "   test    value   "
    /\ calls[i].out = "test value"
    /\ calls[i].again = "test value"

\* The names and the values of the pieces "name=value" of an encoded query,
\* decoded, in the order of the pieces.
PiecesOf(q) == IF q = "" THEN <<>> ELSE Split(q, "&")
NameAt(q, n) == QueryUnescape(Upto(PiecesOf(q)[n], Index(PiecesOf(q)[n], "=")))
ValueAt(q, n) == QueryUnescape(From(PiecesOf(q)[n], Index(PiecesOf(q)[n], "=") + 1))

\* An encoded query has its names in ascending order and the values of each
\* name in ascending order, holds no "+", and is what encoding it again
\* (parse, sort the values, encode, replace "+") gives.
EncodedInOrder(q) ==
  /\ ~Contains(q, "+")
  /\ \A n \in 2..Len(PiecesOf(q)) :
       \/ StrLess(NameAt(q, n - 1), NameAt(q, n))
       \/ /\ NameAt(q, n - 1) = NameAt(q, n)
          /\ ~StrLess(ValueAt(q, n), ValueAt(q, n - 1))
  /\ ReplaceAll(Encode(SortQueryValues(ParseQuery(q))), "+", "%20") = q

\* The query a call wrote is the query it signed: SignHTTP wrote it to the
\* request, PresignHTTP to the URL it returned, the signature after it.
WroteSignedQuery(c) ==
  IF c.op = "SignHTTP" THEN c.after.URL.RawQuery = c.canonicalQuery
  ELSE RawQueryOf(c.url) = c.canonicalQuery \o "&" \o AmzSignatureKey \o "=" \o c.signature

\* C21 as the claim states it: the query SignHTTP and PresignHTTP sign and
\* write has its parameter names in ascending order, the values of each
\* name in ascending order, no "+", and is unchanged by encoding it again.
C21_AsStated ==
  \A i \in Signed("SignHTTP") \cup Signed("PresignHTTP") :
    WroteSignedQuery(calls[i]) /\ EncodedInOrder(calls[i].canonicalQuery)

\* What C21 says, of SignHTTP, and of PresignHTTP when no header of
\* several values is hoisted.
C21_UnlessHoistedSeveral ==
  \A i \in Signed("SignHTTP") \cup Signed("PresignHTTP") :
    (\A k \in DOMAIN calls[i].hoisted : Len(calls[i].hoisted[k]) <= 1) =>
      WroteSignedQuery(calls[i]) /\ EncodedInOrder(calls[i].canonicalQuery)

\* A SignHTTP and a PresignHTTP that encoded a query with a plus sign, a
\* space and two values given in descending order.
C21_BothEncoded ==
  /\ \E i \in Signed("SignHTTP") : calls[i].canonicalQuery = "b=1&b=2&p=a%2Bb%20c"
  /\ \E i \in Signed("PresignHTTP") :
       /\ signer.config.DisableHeaderHoisting
       /\ HasPrefix(calls[i].canonicalQuery, "X-Amz-Algorithm=")
       /\ Contains(calls[i].canonicalQuery, "&b=1&b=2&p=a%2Bb%20c")

\* The schemes, URL hosts and Host overrides of the requests a caller of
\* SanitizeHostForHeader passes: those of the package's test, a scheme in
\* upper case and one with no default port, a host with an empty port, and
\* IPv6 literals.
HostSchemes == {"http", "https", "HTTPS", "ftp"}
HostSamples ==
  {"example.com", "example.com:80", "example.com:443", "example.com:8080",
   "example.com:", "[::1]", "[::1]:443", "[::1]:8080"}

\* The number of calls of SanitizeHostForHeader.
MaxSanitizes == 1

\* SanitizeHostForHeader(r); SanitizeHostForHeader(r)
CallSanitizeHostForHeader(scheme, urlHost, host) ==
  LET r == NewRequestValue("GET", NewURL(scheme, urlHost, "/path", ""), EmptyValues, host, 0)
  IN  /\ Len(calls) < MaxSanitizes
      /\ calls' = Append(calls,
           [r |-> r, once |-> SanitizeHostForHeader(r),
            twice |-> SanitizeHostForHeader(SanitizeHostForHeader(r))])
      /\ UNCHANGED <<ctor, signer, values, fresh, heap, mu, pc>>

NextHost ==
  \E scheme \in HostSchemes, urlHost \in HostSamples, host \in HostSamples \cup {""} :
    CallSanitizeHostForHeader(scheme, urlHost, host)

\* A caller of SanitizeHostForHeader.
SpecHost == InitNewSigner /\ [][NextHost]_vars

\* The default port of a scheme ("" when it has none).
DefaultPortOf(scheme) ==
  IF ToLower(scheme) = "http" THEN "80"
  ELSE IF ToLower(scheme) = "https" THEN "443"
  ELSE ""

\* A host ends in ":" and the default port of the scheme.
HasDefaultPort(scheme, host) ==
  /\ DefaultPortOf(scheme) # ""
  /\ Len(host) > Len(DefaultPortOf(scheme))
  /\ From(host, Len(host) - Len(DefaultPortOf(scheme)) - 1) = ":" \o DefaultPortOf(scheme)

\* A call of SanitizeHostForHeader did what C22 says: the effective host
\* after it is the effective host before it, without ":" and the port when
\* that is the default port of the scheme, unchanged when not; the URL and
\* the rest of the request are unchanged; a second call changes nothing.
Sanitized(c) ==
  /\ GetHost(c.once) =
       IF HasDefaultPort(c.r.URL.Scheme, GetHost(c.r))
         THEN Upto(GetHost(c.r), Len(GetHost(c.r)) - Len(DefaultPortOf(c.r.URL.Scheme)) - 1)
         ELSE GetHost(c.r)
  /\ ~HasDefaultPort(c.r.URL.Scheme, GetHost(c.r)) => c.once = c.r
  /\ [c.once EXCEPT !.Host = ""] = [c.r EXCEPT !.Host = ""]
  /\ c.twice = c.once

\* C22 as the claim states it, of every host.
C22_AsStated == \A i \in DOMAIN calls : Sanitized(calls[i])

\* What C22 says, of effective hosts that are not bracketed IPv6 literals.
C22_UnlessBracketed ==
  \A i \in DOMAIN calls : ~Contains(GetHost(calls[i].r), "]") => Sanitized(calls[i])

\* The calls of the package's test: a default port stripped under http and
\* under https in upper case, another port kept.
C22_Stripped ==
  \E i \in DOMAIN calls :
    /\ calls[i].r.URL.Scheme = "HTTPS" /\ calls[i].r.Host = ""
    /\ calls[i].r.URL.Host = "example.com:443"
    /\ calls[i].once.Host = "example.com"

\* The paths, queries and opaque parts of the URLs a caller of GetURIPath
\* passes: those of the package's test; paths with a space, a percent sign
\* and a question mark, and one that is relative; opaque parts with and
\* without a scheme separator, a path and a query.
PathSamples == {"", "/", "/bucket/key", "/my key", "/a%b", "/a?b", "bucket"}
PathQueries == {"", "foo=bar", "a=1&b=2"}
OpaqueSamples ==
  {"", "//example.com/bucket/key?x=1", "example.com/a?b/c", "mailto", "//host",
   "/p//q", "?x"}

\* The number of calls of GetURIPath.
MaxPaths == 1

\* uriPath := GetURIPath(u)
CallGetURIPath(path, rawQuery, opaque) ==
  LET u == [NewURL("https", "example.com", path, rawQuery) EXCEPT !.Opaque = opaque]
  IN  /\ Len(calls) < MaxPaths
      /\ calls' = Append(calls, [u |-> u, uriPath |-> GetURIPath(u)])
      /\ UNCHANGED <<ctor, signer, values, fresh, heap, mu, pc>>

NextPath ==
  \E path \in PathSamples, rawQuery \in PathQueries, opaque \in OpaqueSamples :
    CallGetURIPath(path, rawQuery, opaque)

\* A caller of GetURIPath.
SpecPath == InitNewSigner /\ [][NextPath]_vars

\* A path with its percent escapes decoded (a plus sign stays).
PathUnescape(s) ==
  MapCat(LAMBDA i :
           LET c == Char(s, i)
           IN  IF c = "%" THEN Chr(UnHex(Char(s, i + 1)) * 16 + UnHex(Char(s, i + 2)))
               ELSE IF (i > 1 /\ Char(s, i - 1) = "%") \/ (i > 2 /\ Char(s, i - 2) = "%")
                 THEN ""
               ELSE c,
         1, Len(s))

\* An opaque part before its first "?", and then without a leading "//".
BeforeQuery(opaque) ==
  IF Contains(opaque, "?") THEN Upto(opaque, Index(opaque, "?")) ELSE opaque
AfterSlashes(opaque) ==
  IF HasPrefix(BeforeQuery(opaque), "//") THEN From(BeforeQuery(opaque), 2)
  ELSE BeforeQuery(opaque)

C23_OpaqueCut ==
  \E i \in DOMAIN calls :
    /\ calls[i].u.Opaque = "//example.com/bucket/key?x=1"
    /\ calls[i].uriPath = "/bucket/key"

\* A request without the parts SignHTTP may write: its header map, its
\* Host and its raw query.
FrameOf(r) == [r EXCEPT !.Header = EmptyValues, !.Host = "", !.URL.RawQuery = ""]

\* C24: a successful SignHTTP leaves on the request the header map it found
\* with X-Amz-Date set to the signing time and Authorization set to the
\* value it computed, every other header as it was; a raw query that is the
\* query it signed and holds the parameters of the query it found, the same
\* names with the same values in ascending order, none added; the Host it
\* found, or the effective host without its port when that is the default
\* port of the scheme; and the method, the URL's other parts and the
\* content length as they were.
C24_SignWritesOnlyItsFields ==
  \A i \in Signed("SignHTTP") :
    /\ calls[i].after.Header =
         SetValues(SetValues(calls[i].before.Header, AmzDateKey,
                             <<FormatLong(UTC(calls[i].time))>>),
                   AuthorizationHeader,
                   <<BuildAuthorizationHeader(calls[i].credentialStr,
                                              calls[i].signedHeadersStr,
                                              calls[i].signature)>>)
    /\ calls[i].after.URL.RawQuery = calls[i].canonicalQuery
    /\ ParseQuery(calls[i].after.URL.RawQuery)
         = SortQueryValues(ParseQuery(calls[i].before.URL.RawQuery))
    /\ calls[i].after.Host =
         IF HasDefaultPort(calls[i].before.URL.Scheme, GetHost(calls[i].before))
           THEN Upto(GetHost(calls[i].before),
                     Len(GetHost(calls[i].before))
                       - Len(DefaultPortOf(calls[i].before.URL.Scheme)) - 1)
           ELSE calls[i].before.Host
    /\ FrameOf(calls[i].after) = FrameOf(calls[i].before)
    /\ calls[i].hoisted = EmptyValues

\* A successful SignHTTP of a request with a query to re-encode, a default
\* port to strip, a body and headers of its own.
C24_Witness ==
  \E i \in Signed("SignHTTP") :
    /\ calls[i].before.URL.RawQuery = "b=2&a=1+x&a=0&X-Amz-Expires=300"
    /\ calls[i].after.URL.RawQuery = "X-Amz-Expires=300&a=0&a=1%20x&b=2"
    /\ calls[i].before.Host = "" /\ calls[i].after.Host = "example.com"
    /\ calls[i].after.ContentLength = 5
    /\ calls[i].after.Header["X-Amz-Meta-Custom"] = <<" a  b ">>
    /\ AuthorizationHeader \in DOMAIN calls[i].after.Header

\* C25: after any DeriveKey calls the cache holds one entry for each cache
\* key asked for and no other; a miss stores under its own cache key the
\* access key id, the time and the key of the call and leaves the entry of
\* every other cache key as it was; a hit leaves the cache as it was; while
\* all calls name one region and one service the cache holds one entry at
\* most.
C25_LastWriteWins ==
  /\ DOMAIN values = { SlotOf(calls[i]) : i \in DOMAIN calls }
  /\ \A i \in DOMAIN calls :
       /\ calls[i].valuesBefore = IF i = 1 THEN newDerivedKeyCache ELSE calls[i - 1].valuesAfter
       /\ calls[i].hit => calls[i].valuesAfter = calls[i].valuesBefore
       /\ ~calls[i].hit =>
            /\ DOMAIN calls[i].valuesAfter
                 = DOMAIN calls[i].valuesBefore \cup {SlotOf(calls[i])}
            /\ calls[i].valuesAfter[SlotOf(calls[i])] =
                 [accessKeyID |-> calls[i].accessKeyID,
                  date |-> NewSigningTime(calls[i].time),
                  key |-> calls[i].key]
            /\ \A k \in DOMAIN calls[i].valuesBefore \ {SlotOf(calls[i])} :
                 calls[i].valuesAfter[k] = calls[i].valuesBefore[k]
  /\ (calls # <<>> => values = calls[Len(calls)].valuesAfter)
  /\ (\A i, j \in DOMAIN calls :
        calls[i].region = calls[j].region /\ calls[i].service = calls[j].service)
       => Cardinality(DOMAIN values) <= 1

\* Two misses under two cache keys: the cache holds both entries, the first
\* as the first call left it.
C25_Witness ==
  /\ Len(calls) = 2
  /\ ~calls[1].hit /\ ~calls[2].hit
  /\ SlotOf(calls[1]) # SlotOf(calls[2])
  /\ Cardinality(DOMAIN values) = 2
  /\ values[SlotOf(calls[1])] = calls[1].valuesAfter[SlotOf(calls[1])]

\* A miss under the cache key of an earlier call, on another day: the
\* entry is overwritten and the cache holds one entry.
C25_Overwritten ==
  /\ Len(calls) = 2
  /\ ~calls[2].hit
  /\ SlotOf(calls[1]) = SlotOf(calls[2])
  /\ Cardinality(DOMAIN values) = 1
  /\ values[SlotOf(calls[2])].key = calls[2].key
  /\ calls[1].key # calls[2].key

\* The cache of a Signer holds one entry at most, under the cache key of its
\* region and service.
C25_SignerHoldsOneEntry ==
  DOMAIN values \subseteq {lookupKey(signer.config.Service, signer.config.Region)}

\* The key DeriveKey derives, uncached, for the shared Signer at time t.
KeyOfDay(t) ==
  DeriveKey(signer.config.SecretAccessKey, signer.config.Service, signer.config.Region, t)

\* C26, of goroutines that share a Signer with ThreadSafety true: the key
\* get answers with on a hit, the key a goroutine derives on a miss and
\* stores, and so the key DeriveKey returns to each call, is the key
\* derived uncached from the secret, the service, the region and the UTC
\* day of that call's signing time; every entry of the cache holds the key
\* of the day of its date.
C26_KeyOfOwnDay ==
  signer.config.ThreadSafety =>
    /\ \A g \in Goroutines :
         (pc[g].at = "read" /\ pc[g].ok) => pc[g].key = KeyOfDay(pc[g].time)
    /\ \A g \in Goroutines :
         pc[g].at \in {"set", "pending", "locked", "written"} =>
           pc[g].key = KeyOfDay(pc[g].time)
    /\ \A k \in DOMAIN values : values[k].key = KeyOfDay(values[k].date)
    /\ KeyOfDay(NewSigningTime(TimeAt(0))) # KeyOfDay(NewSigningTime(TimeAt(3)))

\* With ThreadSafety true, a goroutine has a hit on the entry another
\* goroutine stored while a third, signing on the next UTC day, has missed
\* that entry and waits to overwrite it.
C26_Witness ==
  /\ signer.config.ThreadSafety
  /\ \E g, h \in Goroutines :
       /\ pc[g].at = "read" /\ pc[g].ok
       /\ pc[g].time = NewSigningTime(TimeAt(0))
       /\ pc[h].at \in {"set", "pending"}
       /\ pc[h].time = NewSigningTime(TimeAt(3))
       /\ values[SharedSlot].date = NewSigningTime(TimeAt(0))

\* C26, of the calls one goroutine makes in sequence: every SignHTTP and
\* PresignHTTP signs with the key derived uncached for the UTC day of its
\* signing time, whatever the cache held, and its signature is the one of
\* that key and its string to sign.
C26_SequentialKeyOfOwnDay ==
  \A i \in Signed("SignHTTP") \cup Signed("PresignHTTP") :
    /\ calls[i].key = KeyOfDay(NewSigningTime(calls[i].time))
    /\ calls[i].signature = BuildSignature(KeyOfDay(NewSigningTime(calls[i].time)),
                                           calls[i].strToSign)

\* Two calls in sequence on two UTC days, the second on the earlier day.
C26_BackAcrossMidnight ==
  \E i, j \in Signed("SignHTTP") \cup Signed("PresignHTTP") :
    /\ i < j /\ ~calls[j].hit
    /\ calls[i].time = TimeAt(3) /\ calls[j].time = TimeAt(0)

\* Two DeriveKey calls name different (region, service) pairs; a call names
\* a region and a service without a "/".
OtherPair(i, j) ==
  calls[i].region # calls[j].region \/ calls[i].service # calls[j].service
NoSlash(c) == ~Contains(c.region, "/") /\ ~Contains(c.service, "/")

\* The key a hit returned was derived for the region and the service of an
\* earlier call under the same cache key.
HitFrom(i, j) ==
  /\ i < j /\ calls[j].hit
  /\ SlotOf(calls[i]) = SlotOf(calls[j])
  /\ calls[j].key = Underived(calls[i])

\* C27 as the claim states it: two DeriveKey calls with different
\* (region, service) pairs have different cache keys, and the later one is
\* not a hit on the key derived for the earlier one.
C27_AsStated ==
  \A i, j \in DOMAIN calls :
    (i < j /\ OtherPair(i, j)) =>
      /\ SlotOf(calls[i]) # SlotOf(calls[j])
      /\ ~HitFrom(i, j)

\* C27 amended: two DeriveKey calls with different (region, service) pairs
\* whose regions and services hold no "/" have different cache keys, so
\* the later is no hit on the key of the earlier and leaves the entry of
\* the earlier's cache key as it found it; and every hit returns the key some earlier call derived under
\* the same cache key.
C27_DistinctWithoutSlash ==
  /\ \A i, j \in DOMAIN calls :
       (i < j /\ OtherPair(i, j) /\ NoSlash(calls[i]) /\ NoSlash(calls[j])) =>
         /\ SlotOf(calls[i]) # SlotOf(calls[j])
         /\ ~HitFrom(i, j)
         /\ calls[j].valuesAfter[SlotOf(calls[i])] = calls[j].valuesBefore[SlotOf(calls[i])]
  /\ \A j \in DOMAIN calls :
       calls[j].hit => \E i \in DOMAIN calls : HitFrom(i, j) /\ ~calls[i].hit

\* Two calls for two regions without a "/", with the same service, access
\* key id, secret and day: the second is a miss and the cache holds both
\* keys.
C27_Witness ==
  /\ Len(calls) = 2
  /\ NoSlash(calls[1]) /\ NoSlash(calls[2])
  /\ calls[1].region # calls[2].region
  /\ calls[1].service = calls[2].service
  /\ calls[1].accessKeyID = calls[2].accessKeyID
  /\ calls[1].secret = calls[2].secret
  /\ SameUTCDay(calls[1].time, calls[2].time)
  /\ ~calls[2].hit
  /\ calls[1].key # calls[2].key
  /\ Cardinality(DOMAIN values) = 2

\* C28 as the claim states it: the query of the URL PresignHTTP returns is
\* the query it signed, which holds no X-Amz-Signature, followed by the one
\* X-Amz-Signature parameter of this call.
C28_AsStated ==
  \A i \in Signed("PresignHTTP") :
    /\ WroteSignedQuery(calls[i])
    /\ AmzSignatureKey \notin DOMAIN ParseQuery(calls[i].canonicalQuery)

\* What C28 says, of requests whose query holds no X-Amz-Signature.
C28_UnlessSignedBefore ==
  \A i \in Signed("PresignHTTP") :
    AmzSignatureKey \notin DOMAIN ParamsBefore(calls[i]) =>
      /\ WroteSignedQuery(calls[i])
      /\ AmzSignatureKey \notin DOMAIN ParseQuery(calls[i].canonicalQuery)

\* A PresignHTTP of a request whose query holds an X-Amz-Signature: the
\* URL returned holds that parameter and the signature of the call.
C28_TwoSignatures ==
  \E i \in Signed("PresignHTTP") :
    /\ AmzSignatureKey \in DOMAIN ParamsBefore(calls[i])
    /\ Contains(calls[i].canonicalQuery, "&X-Amz-Signature=0a1b&X-Amz-SignedHeaders=")
    /\ WroteSignedQuery(calls[i])

====
